---- MODULE Spec2Model ----
(***************************************************************************)
(* State-machine model of the stake-server relay/ledger service.           *)
(*                                                                         *)
(* Every route handler is an async function: it runs synchronously up to   *)
(* its next `await` (a store read/write, the relayer call, the Telegram    *)
(* send) and other handlers may run in between.  Each action below is one  *)
(* such segment.  A task slot holds one in-flight request: its route       *)
(* (op), its position (pc), the request body/headers (req), the document   *)
(* the handler has in hand (doc) and, once sent, the response (res).       *)
(***************************************************************************)
EXTENDS Integers, Sequences, FiniteSets, TLC

VARIABLES
    transactions,   \* Transaction collection: _id -> document
    withdrawals,    \* Withdrawal collection:  _id -> document
    suspensions,    \* Suspension collection:  address (unique index) -> document
    nextId,         \* number of ObjectIds generated so far
    now,            \* Date.now()
    relayed,        \* envelopes accepted by relaySigner.sendTransaction, in order
    receipts,       \* the chain: for each envelope, the status of its receipt once mined
    notified,       \* messages delivered by bot.sendMessage
    tasks           \* in-flight requests

vars == <<transactions, withdrawals, suspensions, nextId, now, relayed, receipts, notified, tasks>>

store == <<transactions, withdrawals, suspensions, nextId>>
outside == <<relayed, receipts, notified>>

----------------------------------------------------------------------------
(* Bounds of the model *)

MaxIds == 2         \* documents created in one behaviour
MaxRaceIds == 1     \* documents created in one behaviour of the interleaved specification
MaxCreateIds == 2   \* documents created in one behaviour of the creation specification
MaxGateIds == 1     \* documents created in one behaviour of the suspension specifications
MaxRelays == 1      \* envelopes submitted in one behaviour
MaxNow == 2         \* clock ticks in one behaviour

Tasks == {"t1", "t2"}

----------------------------------------------------------------------------
(* Strings: addresses, signatures, hashes *)

\* "0xAa" is a mixed-case rendering of the address "0xaa"; "0xAD" of "0xad".
ToLowerCase(s) ==
    CASE s = "0xAa" -> "0xaa"
      [] s = "0xBb" -> "0xbb"
      [] s = "0xAD" -> "0xad"
      [] s = "0xCc" -> "0xcc"
      [] OTHER -> s

\* A JSON value of the request body that is not a string (a number, an
\* array): truthy, and without the String methods toLowerCase and match.
NotAString == "[12345]"

IsString(v) == v # NotAString

\* ethers.isAddress: 0x + 40 hex characters; "zz" and "" are not.
isAddress(s) == s \in {"0xaa", "0xAa", "0xbb", "0xBb", "0xad", "0xAD", "0xcc", "0xCc", "0xdd"}

\* process.env.ADMIN_ADDRESS and process.env.WITHDRAWAL_CONTRACT_ADDRESS
ADMIN_ADDRESS == "0xAD"
WITHDRAWAL_CONTRACT_ADDRESS == "0xCc"

\* A signature header: malformed text, or 0x + 130 hex characters, which
\* ethers.verifyMessage("Admin access", .) maps to the address of the key that
\* signed (or throws when the point cannot be recovered).
SigOf(signer) == [hex |-> TRUE, signer |-> signer]
SigMalformed == [hex |-> FALSE, signer |-> "-"]
SigUnrecoverable == [hex |-> TRUE, signer |-> "throws"]
SigAbsent == [hex |-> FALSE, signer |-> "absent"]
SigNotAString == [hex |-> FALSE, signer |-> NotAString]

isSignature(sig) == sig.hex

\* mongoose.Types.ObjectId.isValid: ids are positive integers here, 0 stands
\* for a string that is no ObjectId.
isValidObjectId(id) == id >= 1

StatusEnum == {"pending", "awaiting verification", "verified", "failed"}

----------------------------------------------------------------------------
(* Task slots *)

NoReq == [route |-> "-"]
NoDoc == [found |-> FALSE, status |-> "-", userId |-> "-", updatedAt |-> 0]
NoRes == [code |-> 0, error |-> "-", info |-> "-", id |-> 0, list |-> <<>>]

\* caught: the message of the error the outer catch of a relay handler has
\* received (and logged), "-" when it has caught none.
Idle == [op |-> "idle", pc |-> "idle", req |-> NoReq, doc |-> NoDoc, res |-> NoRes, ref |-> 0,
         caught |-> "-"]

Res(code, error, info, id) == [code |-> code, error |-> error, info |-> info, id |-> id, list |-> <<>>]

\* res.status(code).json(...): the handler is over.
Respond(t, r) == tasks' = [tasks EXCEPT ![t].pc = "done", ![t].res = r]

Goto(t, pc) == tasks' = [tasks EXCEPT ![t].pc = pc]

Begin(t, op, pc, req) ==
    tasks' = [tasks EXCEPT ![t] = [Idle EXCEPT !.op = op, !.pc = pc, !.req = req]]

Reject(t, op, req, r) ==
    tasks' = [tasks EXCEPT ![t] = [Idle EXCEPT !.op = op, !.pc = "done", !.req = req, !.res = r]]

At(t, op, pc) == tasks[t].op = op /\ tasks[t].pc = pc

InFlight(t) == tasks[t].pc \notin {"idle", "done"}

\* Snapshot of a findById result.
Found(coll, id) ==
    IF id \in DOMAIN coll
    THEN [found |-> TRUE, status |-> coll[id].status, userId |-> coll[id].userId,
          updatedAt |-> coll[id].updatedAt]
    ELSE NoDoc

\* Model.findOne({userId, status: "pending"}): some matching _id, 0 when none.
PendingOf(coll, userId) ==
    {id \in DOMAIN coll : coll[id].userId = userId /\ coll[id].status = "pending"}

Empty == [x \in {} |-> NoDoc]

Insert(coll, key, d) == [x \in DOMAIN coll \cup {key} |-> IF x = key THEN d ELSE coll[x]]

Remove(coll, key) == [x \in DOMAIN coll \ {key} |-> coll[x]]

\* A value that is not a number (isNaN), e.g. the string "abc" in the JSON body.
NotANumber == -1000

isNaN(x) == x = NotANumber

\* Number(chainId) of the chainId as it stands in the JSON body: the number
\* 56 or the string "56" ("56"), the string "0x38", the number 97 ("97").
Number(v) ==
    CASE v = "56" -> 56
      [] v = "0x38" -> 56
      [] v = "97" -> 97
      [] OTHER -> NotANumber

Init ==
    /\ transactions = Empty
    /\ withdrawals = Empty
    /\ suspensions = Empty
    /\ nextId = 0
    /\ now = 0
    /\ relayed = <<>>
    /\ receipts = <<>>
    /\ notified = {}
    /\ tasks = [t \in Tasks |-> Idle]

\* The client has its response; the slot is free for the next request.
Ack(t) ==
    /\ tasks[t].pc = "done"
    /\ tasks' = [tasks EXCEPT ![t] = Idle]
    /\ UNCHANGED <<store, now, outside>>

\* Time passes.
Tick ==
    /\ now < MaxNow
    /\ now' = now + 1
    /\ UNCHANGED <<store, outside, tasks>>

----------------------------------------------------------------------------
(* POST /api/create-transaction *)

InvalidTransactionData(body) ==
    \/ ~isAddress(body.userId)
    \/ body.name = ""
    \/ ~isAddress(body.address)
    \/ isNaN(body.usdtAmount)
    \/ isNaN(body.nairaAmount)
    \/ (~isNaN(body.usdtAmount) /\ body.usdtAmount <= 0)
    \/ (~isNaN(body.nairaAmount) /\ body.nairaAmount <= 0)

CreateTransaction(t, body) ==
    /\ tasks[t].pc = "idle"
    /\ IF InvalidTransactionData(body)
       THEN Reject(t, "create-transaction", body, Res(400, "Invalid transaction data", "-", 0))
       ELSE Begin(t, "create-transaction", "findSuspension", body)
    /\ UNCHANGED <<store, now, outside>>

\* The pending lookup made before the suspension lookup.
CreateTransactionFindSuspension_PendingFirst(t) ==
    /\ At(t, "create-transaction", "findSuspension")
    /\ LET a == ToLowerCase(tasks[t].req.userId)
           pending == PendingOf(transactions, ToLowerCase(tasks[t].req.userId)) IN
       IF pending # {}
       THEN \E id \in pending : Respond(t, Res(400, "You have a pending transaction", "-", id))
       ELSE IF a \in DOMAIN suspensions
       THEN Respond(t, Res(403, "Account is suspended", suspensions[a].reason, 0))
       ELSE Goto(t, "findPending")
    /\ UNCHANGED <<store, now, outside>>

\* Suspension.findOne({address: userId.toLowerCase()})
CreateTransactionFindSuspension(t) ==
    /\ At(t, "create-transaction", "findSuspension")
    /\ LET a == ToLowerCase(tasks[t].req.userId) IN
       IF a \in DOMAIN suspensions
       THEN Respond(t, Res(403, "Account is suspended", suspensions[a].reason, 0))
       ELSE Goto(t, "findPending")
    /\ UNCHANGED <<store, now, outside>>

\* The pending lookup with the userId as sent, not lowercased.
CreateTransactionFindPending_AsSent(t) ==
    /\ At(t, "create-transaction", "findPending")
    /\ LET pending == PendingOf(transactions, tasks[t].req.userId) IN
       IF pending # {}
       THEN \E id \in pending : Respond(t, Res(400, "You have a pending transaction", "-", id))
       ELSE Goto(t, "save")
    /\ UNCHANGED <<store, now, outside>>

\* The lookup without the status filter: any record of the user blocks.
CreateTransactionFindPending_AnyStatus(t) ==
    /\ At(t, "create-transaction", "findPending")
    /\ LET records == {id \in DOMAIN transactions :
                          transactions[id].userId = ToLowerCase(tasks[t].req.userId)} IN
       IF records # {}
       THEN \E id \in records : Respond(t, Res(400, "You have a pending transaction", "-", id))
       ELSE Goto(t, "save")
    /\ UNCHANGED <<store, now, outside>>

\* Transaction.findOne({userId: userId.toLowerCase(), status: "pending"})
CreateTransactionFindPending(t) ==
    /\ At(t, "create-transaction", "findPending")
    /\ LET pending == PendingOf(transactions, ToLowerCase(tasks[t].req.userId)) IN
       IF pending # {}
       THEN \E id \in pending : Respond(t, Res(400, "You have a pending transaction", "-", id))
       ELSE Goto(t, "save")
    /\ UNCHANGED <<store, now, outside>>

\* The document built with the address as sent; the schema lowercases userId.
NewTransaction_AsSent(body) ==
    [userId |-> ToLowerCase(body.userId),
     address |-> body.address,
     usdtAmount |-> body.usdtAmount,
     nairaAmount |-> body.nairaAmount,
     status |-> "pending",
     createdAt |-> now,
     updatedAt |-> now]

NewTransaction(body) ==
    [userId |-> ToLowerCase(body.userId),
     address |-> ToLowerCase(body.address),
     usdtAmount |-> body.usdtAmount,
     nairaAmount |-> body.nairaAmount,
     status |-> "pending",
     createdAt |-> now,
     updatedAt |-> now]

\* The save made conditional on a second suspension lookup.
CreateTransactionSave_Rechecked(t) ==
    /\ At(t, "create-transaction", "save")
    /\ LET a == ToLowerCase(tasks[t].req.userId) IN
       IF a \in DOMAIN suspensions
       THEN /\ Respond(t, Res(403, "Account is suspended", suspensions[a].reason, 0))
            /\ UNCHANGED <<transactions, nextId>>
       ELSE /\ nextId' = nextId + 1
            /\ transactions' = Insert(transactions, nextId + 1,
                                      [userId |-> a, address |-> ToLowerCase(tasks[t].req.address),
                                       usdtAmount |-> tasks[t].req.usdtAmount,
                                       nairaAmount |-> tasks[t].req.nairaAmount,
                                       status |-> "pending", createdAt |-> now, updatedAt |-> now])
            /\ Respond(t, Res(200, "-", "-", nextId + 1))
    /\ UNCHANGED <<withdrawals, suspensions, now, outside>>

\* new Transaction({...}).save(); res.json({transactionId})
CreateTransactionSave(t) ==
    /\ At(t, "create-transaction", "save")
    /\ nextId' = nextId + 1
    /\ transactions' = Insert(transactions, nextId + 1, NewTransaction(tasks[t].req))
    /\ Respond(t, Res(200, "-", "-", nextId + 1))
    /\ UNCHANGED <<withdrawals, suspensions, now, outside>>

----------------------------------------------------------------------------
(* POST /api/create-withdrawal *)

isTxHash(h) == h = "0xhash"

InvalidWithdrawalData(body) ==
    \/ ~isAddress(body.userId)
    \/ body.usdtAmount = 0
    \/ isNaN(body.usdtAmount)
    \/ (~isNaN(body.usdtAmount) /\ body.usdtAmount <= 0)
    \/ ~body.bankDetails
    \/ body.txHash = ""
    \/ ~isTxHash(body.txHash)

CreateWithdrawal(t, body) ==
    /\ tasks[t].pc = "idle"
    /\ IF InvalidWithdrawalData(body)
       THEN Reject(t, "create-withdrawal", body, Res(400, "Invalid withdrawal data", "-", 0))
       ELSE Begin(t, "create-withdrawal", "findSuspension", body)
    /\ UNCHANGED <<store, now, outside>>

CreateWithdrawalFindSuspension(t) ==
    /\ At(t, "create-withdrawal", "findSuspension")
    /\ LET a == ToLowerCase(tasks[t].req.userId) IN
       IF a \in DOMAIN suspensions
       THEN Respond(t, Res(403, "Account is suspended", suspensions[a].reason, 0))
       ELSE Goto(t, "findPending")
    /\ UNCHANGED <<store, now, outside>>

CreateWithdrawalFindPending(t) ==
    /\ At(t, "create-withdrawal", "findPending")
    /\ LET pending == PendingOf(withdrawals, ToLowerCase(tasks[t].req.userId)) IN
       IF pending # {}
       THEN \E id \in pending : Respond(t, Res(400, "You have a pending withdrawal", "-", id))
       ELSE Goto(t, "save")
    /\ UNCHANGED <<store, now, outside>>

\* The record with the schema default of status being awaiting verification.
NewWithdrawal_AwaitingByDefault(body) ==
    [userId |-> ToLowerCase(body.userId),
     usdtAmount |-> body.usdtAmount,
     txHash |-> body.txHash,
     status |-> "awaiting verification",
     createdAt |-> now,
     updatedAt |-> now]

NewWithdrawal(body) ==
    [userId |-> ToLowerCase(body.userId),
     usdtAmount |-> body.usdtAmount,
     txHash |-> body.txHash,
     status |-> "pending",
     createdAt |-> now,
     updatedAt |-> now]

\* new Withdrawal({...}).save(); the handler then awaits the Telegram send.
CreateWithdrawalSave(t) ==
    /\ At(t, "create-withdrawal", "save")
    /\ nextId' = nextId + 1
    /\ withdrawals' = Insert(withdrawals, nextId + 1, NewWithdrawal(tasks[t].req))
    /\ tasks' = [tasks EXCEPT ![t].pc = "notify", ![t].ref = nextId + 1]
    /\ UNCHANGED <<transactions, suspensions, now, outside>>

\* await bot.sendMessage(...): delivered, or it rejects and the catch answers 500.
CreateWithdrawalNotify(t, delivered) ==
    /\ At(t, "create-withdrawal", "notify")
    /\ IF delivered
       THEN /\ notified' = notified \cup {[kind |-> "New Withdrawal Request", id |-> tasks[t].ref]}
            /\ Respond(t, Res(200, "-", "-", tasks[t].ref))
       ELSE /\ notified' = notified
            /\ Respond(t, Res(500, "Server error", "-", 0))
    /\ UNCHANGED <<store, now, relayed, receipts>>

----------------------------------------------------------------------------
(* middleware/auth.js *)

\* ethers.verifyMessage("Admin access", signature).toLowerCase()
verifyMessage(sig) == ToLowerCase(sig.signer)

\* The middleware without the comparison with the configured admin address.
adminMiddleware_AnySigner(h) ==
    IF h.adminAddress = "" \/ ~isAddress(h.adminAddress)
    THEN Res(400, "Invalid admin address", "-", 0)
    ELSE IF h.signature = SigAbsent \/ ~isSignature(h.signature)
    THEN Res(400, "Invalid or missing signature", "-", 0)
    ELSE IF h.signature.signer = "throws"
    THEN Res(403, "Authentication failed", "-", 0)
    ELSE IF verifyMessage(h.signature) # ToLowerCase(h.adminAddress)
    THEN Res(403, "Invalid signature", "-", 0)
    ELSE NoRes

\* The response adminMiddleware sends, NoRes when it calls next().
adminMiddleware(h) ==
    IF h.adminAddress = "" \/ ~isAddress(h.adminAddress)
    THEN Res(400, "Invalid admin address", "-", 0)
    ELSE IF h.signature = SigAbsent \/ ~isSignature(h.signature)
    THEN Res(400, "Invalid or missing signature", "-", 0)
    ELSE IF h.signature.signer = "throws"
    THEN Res(403, "Authentication failed", "-", 0)
    ELSE IF verifyMessage(h.signature) # ToLowerCase(h.adminAddress)
    THEN Res(403, "Invalid signature", "-", 0)
    ELSE IF ToLowerCase(h.adminAddress) # ToLowerCase(ADMIN_ADDRESS)
    THEN Res(403, "Not authorized as admin", "-", 0)
    ELSE NoRes

----------------------------------------------------------------------------
(* POST /api/cancel-transaction *)

CancelTransaction(t, body) ==
    /\ tasks[t].pc = "idle"
    /\ IF ~isValidObjectId(body.transactionId)
       THEN Reject(t, "cancel-transaction", body, Res(400, "Invalid transaction ID", "-", 0))
       ELSE Begin(t, "cancel-transaction", "findById", body)
    /\ UNCHANGED <<store, now, outside>>

\* The lookup without the check of the status.
CancelTransactionFindById_AnyStatus(t) ==
    /\ At(t, "cancel-transaction", "findById")
    /\ LET d == Found(transactions, tasks[t].req.transactionId) IN
       IF ~d.found
       THEN Respond(t, Res(404, "Transaction not found", "-", 0))
       ELSE tasks' = [tasks EXCEPT ![t].pc = "delete", ![t].doc = d]
    /\ UNCHANGED <<store, now, outside>>

\* Transaction.findById(transactionId) and the checks on what it returned
CancelTransactionFindById(t) ==
    /\ At(t, "cancel-transaction", "findById")
    /\ LET d == Found(transactions, tasks[t].req.transactionId) IN
       IF ~d.found
       THEN Respond(t, Res(404, "Transaction not found", "-", 0))
       ELSE IF d.status # "pending"
       THEN Respond(t, Res(400, "Transaction is in status", d.status, 0))
       ELSE tasks' = [tasks EXCEPT ![t].pc = "delete", ![t].doc = d]
    /\ UNCHANGED <<store, now, outside>>

\* Transaction.findByIdAndDelete(transactionId): resolves whether or not a
\* document was there, and whatever its status is by now.
CancelTransactionDelete(t) ==
    /\ At(t, "cancel-transaction", "delete")
    /\ transactions' = Remove(transactions, tasks[t].req.transactionId)
    /\ Respond(t, Res(200, "Transaction cancelled successfully", "-", 0))
    /\ UNCHANGED <<withdrawals, suspensions, nextId, now, outside>>

----------------------------------------------------------------------------
(* POST /api/cancel-withdrawal *)

CancelWithdrawal(t, body) ==
    /\ tasks[t].pc = "idle"
    /\ IF ~isValidObjectId(body.transactionId)
       THEN Reject(t, "cancel-withdrawal", body, Res(400, "Invalid withdrawal ID", "-", 0))
       ELSE Begin(t, "cancel-withdrawal", "findById", body)
    /\ UNCHANGED <<store, now, outside>>

\* The lookup as findByIdAndDelete, the status looked at afterwards.
CancelWithdrawalFindById_DeleteFirst(t) ==
    /\ At(t, "cancel-withdrawal", "findById")
    /\ LET d == Found(withdrawals, tasks[t].req.transactionId) IN
       IF ~d.found
       THEN /\ Respond(t, Res(404, "Withdrawal not found", "-", 0))
            /\ withdrawals' = withdrawals
       ELSE IF d.status # "pending"
       THEN /\ Respond(t, Res(400, "Withdrawal is in status", d.status, 0))
            /\ withdrawals' = Remove(withdrawals, tasks[t].req.transactionId)
       ELSE /\ tasks' = [tasks EXCEPT ![t].pc = "delete", ![t].doc = d]
            /\ withdrawals' = withdrawals
    /\ UNCHANGED <<transactions, suspensions, nextId, now, outside>>

CancelWithdrawalFindById(t) ==
    /\ At(t, "cancel-withdrawal", "findById")
    /\ LET d == Found(withdrawals, tasks[t].req.transactionId) IN
       IF ~d.found
       THEN Respond(t, Res(404, "Withdrawal not found", "-", 0))
       ELSE IF d.status # "pending"
       THEN Respond(t, Res(400, "Withdrawal is in status", d.status, 0))
       ELSE tasks' = [tasks EXCEPT ![t].pc = "delete", ![t].doc = d]
    /\ UNCHANGED <<store, now, outside>>

CancelWithdrawalDelete(t) ==
    /\ At(t, "cancel-withdrawal", "delete")
    /\ withdrawals' = Remove(withdrawals, tasks[t].req.transactionId)
    /\ Respond(t, Res(200, "Withdrawal cancelled successfully", "-", 0))
    /\ UNCHANGED <<transactions, suspensions, nextId, now, outside>>

----------------------------------------------------------------------------
(* POST /api/mark-paid *)

MarkPaid(t, body) ==
    /\ tasks[t].pc = "idle"
    /\ IF ~isValidObjectId(body.transactionId)
       THEN Reject(t, "mark-paid", body, Res(400, "Invalid transaction ID", "-", 0))
       ELSE Begin(t, "mark-paid", "findById", body)
    /\ UNCHANGED <<store, now, outside>>

\* The lookup followed by a suspension check of the record's user.
MarkPaidFindById_Gated(t) ==
    /\ At(t, "mark-paid", "findById")
    /\ LET d == Found(transactions, tasks[t].req.transactionId) IN
       IF ~d.found
       THEN Respond(t, Res(404, "Transaction not found", "-", 0))
       ELSE IF d.userId \in DOMAIN suspensions
       THEN Respond(t, Res(403, "Account is suspended", suspensions[d.userId].reason, 0))
       ELSE IF d.status # "pending"
       THEN Respond(t, Res(400, "Transaction is in status", d.status, 0))
       ELSE tasks' = [tasks EXCEPT ![t].pc = "save", ![t].doc = [d EXCEPT !.updatedAt = now]]
    /\ UNCHANGED <<store, now, outside>>

\* The status test letting a record that awaits verification through as well.
MarkPaidFindById_Repeatable(t) ==
    /\ At(t, "mark-paid", "findById")
    /\ LET d == Found(transactions, tasks[t].req.transactionId) IN
       IF ~d.found
       THEN Respond(t, Res(404, "Transaction not found", "-", 0))
       ELSE IF d.status \notin {"pending", "awaiting verification"}
       THEN Respond(t, Res(400, "Transaction is in status", d.status, 0))
       ELSE tasks' = [tasks EXCEPT ![t].pc = "save", ![t].doc = [d EXCEPT !.updatedAt = now]]
    /\ UNCHANGED <<store, now, outside>>

MarkPaidFindById(t) ==
    /\ At(t, "mark-paid", "findById")
    /\ LET d == Found(transactions, tasks[t].req.transactionId) IN
       IF ~d.found
       THEN Respond(t, Res(404, "Transaction not found", "-", 0))
       ELSE IF d.status # "pending"
       THEN Respond(t, Res(400, "Transaction is in status", d.status, 0))
       ELSE tasks' = [tasks EXCEPT ![t].pc = "save", ![t].doc = [d EXCEPT !.updatedAt = now]]
    /\ UNCHANGED <<store, now, outside>>

\* document.save() of a loaded document writes the paths the handler set
\* (status, and updatedAt = Date.now() as it was when the handler set it) to
\* the stored document with that _id, whatever its stored status is by now;
\* when no such document is left it rejects (DocumentNotFoundError) and the
\* catch answers 500.
SaveStatus(coll, id, status, updatedAt) ==
    IF id \in DOMAIN coll
    THEN [coll EXCEPT ![id].status = status, ![id].updatedAt = updatedAt]
    ELSE coll

MarkPaidSave(t) ==
    /\ At(t, "mark-paid", "save")
    /\ LET id == tasks[t].req.transactionId IN
       /\ transactions' = SaveStatus(transactions, id, "awaiting verification", tasks[t].doc.updatedAt)
       /\ IF id \in DOMAIN transactions
          THEN Respond(t, Res(200, "-", "-", id))
          ELSE Respond(t, Res(500, "Server error", "-", 0))
    /\ UNCHANGED <<withdrawals, suspensions, nextId, now, outside>>

----------------------------------------------------------------------------
(* POST /api/verify-transaction (adminMiddleware first) *)

VerifyTransaction(t, body) ==
    /\ tasks[t].pc = "idle"
    /\ LET auth == adminMiddleware(body) IN
       IF auth # NoRes
       THEN Reject(t, "verify-transaction", body, auth)
       ELSE IF ~isValidObjectId(body.transactionId)
       THEN Reject(t, "verify-transaction", body, Res(400, "Invalid transaction ID", "-", 0))
       ELSE IF body.status \notin {"verified", "failed"}
       THEN Reject(t, "verify-transaction", body, Res(400, "Invalid status", "-", 0))
       ELSE Begin(t, "verify-transaction", "findById", body)
    /\ UNCHANGED <<store, now, outside>>

\* The pre-state check of verify-withdrawal, applied to transactions.
VerifyTransactionFindById_FromPending(t) ==
    /\ At(t, "verify-transaction", "findById")
    /\ LET d == Found(transactions, tasks[t].req.transactionId) IN
       IF ~d.found
       THEN Respond(t, Res(404, "Transaction not found", "-", 0))
       ELSE IF d.status # "pending" /\ d.status # "awaiting verification"
       THEN Respond(t, Res(400, "Transaction is in status", d.status, 0))
       ELSE tasks' = [tasks EXCEPT ![t].pc = "save", ![t].doc = [d EXCEPT !.updatedAt = now]]
    /\ UNCHANGED <<store, now, outside>>

VerifyTransactionFindById(t) ==
    /\ At(t, "verify-transaction", "findById")
    /\ LET d == Found(transactions, tasks[t].req.transactionId) IN
       IF ~d.found
       THEN Respond(t, Res(404, "Transaction not found", "-", 0))
       ELSE IF d.status # "awaiting verification"
       THEN Respond(t, Res(400, "Transaction is in status", d.status, 0))
       ELSE tasks' = [tasks EXCEPT ![t].pc = "save", ![t].doc = [d EXCEPT !.updatedAt = now]]
    /\ UNCHANGED <<store, now, outside>>

VerifyTransactionSave(t) ==
    /\ At(t, "verify-transaction", "save")
    /\ LET id == tasks[t].req.transactionId IN
       /\ transactions' = SaveStatus(transactions, id, tasks[t].req.status, tasks[t].doc.updatedAt)
       /\ IF id \in DOMAIN transactions
          THEN Respond(t, Res(200, "-", "-", 0))
          ELSE Respond(t, Res(500, "Server error", "-", 0))
    /\ UNCHANGED <<withdrawals, suspensions, nextId, now, outside>>

----------------------------------------------------------------------------
(* POST /api/verify-withdrawal (adminMiddleware first) *)

VerifyWithdrawal(t, body) ==
    /\ tasks[t].pc = "idle"
    /\ LET auth == adminMiddleware(body) IN
       IF auth # NoRes
       THEN Reject(t, "verify-withdrawal", body, auth)
       ELSE IF ~isValidObjectId(body.transactionId)
       THEN Reject(t, "verify-withdrawal", body, Res(400, "Invalid withdrawal ID", "-", 0))
       ELSE IF body.status \notin {"verified", "failed"}
       THEN Reject(t, "verify-withdrawal", body, Res(400, "Invalid status", "-", 0))
       ELSE Begin(t, "verify-withdrawal", "findById", body)
    /\ UNCHANGED <<store, now, outside>>

VerifyWithdrawalFindById(t) ==
    /\ At(t, "verify-withdrawal", "findById")
    /\ LET d == Found(withdrawals, tasks[t].req.transactionId) IN
       IF ~d.found
       THEN Respond(t, Res(404, "Withdrawal not found", "-", 0))
       ELSE IF d.status # "pending" /\ d.status # "awaiting verification"
       THEN Respond(t, Res(400, "Withdrawal is in status", d.status, 0))
       ELSE tasks' = [tasks EXCEPT ![t].pc = "save", ![t].doc = [d EXCEPT !.updatedAt = now]]
    /\ UNCHANGED <<store, now, outside>>

\* withdrawal.save(); on success the handler goes on to the Telegram send.
VerifyWithdrawalSave(t) ==
    /\ At(t, "verify-withdrawal", "save")
    /\ LET id == tasks[t].req.transactionId IN
       /\ withdrawals' = SaveStatus(withdrawals, id, tasks[t].req.status, tasks[t].doc.updatedAt)
       /\ IF id \in DOMAIN withdrawals
          THEN Goto(t, "notify")
          ELSE Respond(t, Res(500, "Server error", "-", 0))
    /\ UNCHANGED <<transactions, suspensions, nextId, now, outside>>

VerifyWithdrawalNotify(t, delivered) ==
    /\ At(t, "verify-withdrawal", "notify")
    /\ IF delivered
       THEN /\ notified' = notified \cup {[kind |-> tasks[t].req.status, id |-> tasks[t].req.transactionId]}
            /\ Respond(t, Res(200, "-", "-", 0))
       ELSE /\ notified' = notified
            /\ Respond(t, Res(500, "Server error", "-", 0))
    /\ UNCHANGED <<store, now, relayed, receipts>>

----------------------------------------------------------------------------
(* POST /api/check-status, POST /api/check-withdrawal-status *)

\* The handler without the ObjectId.isValid test.
CheckStatus_LookupFirst(t, body) ==
    /\ tasks[t].pc = "idle"
    /\ Begin(t, "check-status", "findById", body)
    /\ UNCHANGED <<store, now, outside>>

CheckStatus(t, body) ==
    /\ tasks[t].pc = "idle"
    /\ IF ~isValidObjectId(body.transactionId)
       THEN Reject(t, "check-status", body, Res(400, "Invalid transaction ID", "-", 0))
       ELSE Begin(t, "check-status", "findById", body)
    /\ UNCHANGED <<store, now, outside>>

CheckStatusFindById(t) ==
    /\ At(t, "check-status", "findById")
    /\ LET d == Found(transactions, tasks[t].req.transactionId) IN
       IF ~d.found
       THEN Respond(t, Res(404, "Transaction not found", "-", 0))
       ELSE Respond(t, Res(200, "-", d.status, 0))
    /\ UNCHANGED <<store, now, outside>>

CheckWithdrawalStatus(t, body) ==
    /\ tasks[t].pc = "idle"
    /\ IF ~isValidObjectId(body.transactionId)
       THEN Reject(t, "check-withdrawal-status", body, Res(400, "Invalid withdrawal ID", "-", 0))
       ELSE Begin(t, "check-withdrawal-status", "findById", body)
    /\ UNCHANGED <<store, now, outside>>

CheckWithdrawalStatusFindById(t) ==
    /\ At(t, "check-withdrawal-status", "findById")
    /\ LET d == Found(withdrawals, tasks[t].req.transactionId) IN
       IF ~d.found
       THEN Respond(t, Res(404, "Withdrawal not found", "-", 0))
       ELSE Respond(t, Res(200, "-", d.status, 0))
    /\ UNCHANGED <<store, now, outside>>

----------------------------------------------------------------------------
(* POST /api/suspend, POST /api/unsuspend (adminMiddleware first),
   GET /api/check-suspension/:address *)

Suspend(t, body) ==
    /\ tasks[t].pc = "idle"
    /\ LET auth == adminMiddleware(body) IN
       IF auth # NoRes
       THEN Reject(t, "suspend", body, auth)
       ELSE IF ~isAddress(body.address)
       THEN Reject(t, "suspend", body, Res(400, "Invalid Ethereum address", "-", 0))
       ELSE Begin(t, "suspend", "save", body)
    /\ UNCHANGED <<store, now, outside>>

\* The record stamped with the adminAddress header as sent.
NewSuspension_AdminAsSent(body) ==
    [reason |-> IF body.reason = "" THEN "No reason provided" ELSE body.reason,
     admin |-> body.adminAddress,
     suspendedAt |-> now]

NewSuspension(body) ==
    [reason |-> IF body.reason = "" THEN "No reason provided" ELSE body.reason,
     admin |-> ToLowerCase(body.adminAddress),
     suspendedAt |-> now]

\* new Suspension({...}).save(): the unique index on address rejects a second
\* document for the same address with error code 11000.
\* The save under the address as sent, not lowercased.
SuspendSave_AsSent(t) ==
    /\ At(t, "suspend", "save")
    /\ LET a == tasks[t].req.address IN
       IF a \in DOMAIN suspensions
       THEN /\ suspensions' = suspensions
            /\ Respond(t, Res(400, "Account already suspended", "-", 0))
       ELSE /\ suspensions' = Insert(suspensions, a,
                                     [reason |-> IF tasks[t].req.reason = "" THEN "No reason provided"
                                                 ELSE tasks[t].req.reason,
                                      admin |-> ToLowerCase(tasks[t].req.adminAddress),
                                      suspendedAt |-> now])
            /\ Respond(t, Res(200, "suspended", "-", 0))
    /\ UNCHANGED <<transactions, withdrawals, nextId, now, outside>>

\* The save held back while a relay call waits for its confirmation.
SuspendSave_AfterWaits(t) ==
    /\ At(t, "suspend", "save")
    /\ \A s \in Tasks : tasks[s].pc # "wait"
    /\ LET a == ToLowerCase(tasks[t].req.address) IN
       IF a \in DOMAIN suspensions
       THEN /\ suspensions' = suspensions
            /\ Respond(t, Res(400, "Account already suspended", "-", 0))
       ELSE /\ suspensions' = Insert(suspensions, a,
                                     [reason |-> IF tasks[t].req.reason = "" THEN "No reason provided"
                                                 ELSE tasks[t].req.reason,
                                      admin |-> ToLowerCase(tasks[t].req.adminAddress),
                                      suspendedAt |-> now])
            /\ Respond(t, Res(200, "suspended", "-", 0))
    /\ UNCHANGED <<transactions, withdrawals, nextId, now, outside>>

SuspendSave(t) ==
    /\ At(t, "suspend", "save")
    /\ LET a == ToLowerCase(tasks[t].req.address) IN
       IF a \in DOMAIN suspensions
       THEN /\ suspensions' = suspensions
            /\ Respond(t, Res(400, "Account already suspended", "-", 0))
       ELSE /\ suspensions' = Insert(suspensions, a, NewSuspension(tasks[t].req))
            /\ Respond(t, Res(200, "suspended", "-", 0))
    /\ UNCHANGED <<transactions, withdrawals, nextId, now, outside>>

Unsuspend(t, body) ==
    /\ tasks[t].pc = "idle"
    /\ LET auth == adminMiddleware(body) IN
       IF auth # NoRes
       THEN Reject(t, "unsuspend", body, auth)
       ELSE IF ~isAddress(body.address)
       THEN Reject(t, "unsuspend", body, Res(400, "Invalid Ethereum address", "-", 0))
       ELSE Begin(t, "unsuspend", "delete", body)
    /\ UNCHANGED <<store, now, outside>>

\* The delete as a deleteMany with no filter: every record goes.
UnsuspendDelete_Every(t) ==
    /\ At(t, "unsuspend", "delete")
    /\ LET a == ToLowerCase(tasks[t].req.address) IN
       IF a \in DOMAIN suspensions
       THEN /\ suspensions' = Empty
            /\ Respond(t, Res(200, "unsuspended", "-", 0))
       ELSE /\ suspensions' = suspensions
            /\ Respond(t, Res(404, "Account not suspended", "-", 0))
    /\ UNCHANGED <<transactions, withdrawals, nextId, now, outside>>

\* Suspension.findOneAndDelete({address: address.toLowerCase()})
UnsuspendDelete(t) ==
    /\ At(t, "unsuspend", "delete")
    /\ LET a == ToLowerCase(tasks[t].req.address) IN
       IF a \in DOMAIN suspensions
       THEN /\ suspensions' = Remove(suspensions, a)
            /\ Respond(t, Res(200, "unsuspended", "-", 0))
       ELSE /\ suspensions' = suspensions
            /\ Respond(t, Res(404, "Account not suspended", "-", 0))
    /\ UNCHANGED <<transactions, withdrawals, nextId, now, outside>>

CheckSuspension(t, params) ==
    /\ tasks[t].pc = "idle"
    /\ IF ~isAddress(params.address)
       THEN Reject(t, "check-suspension", params, Res(400, "Invalid Ethereum address", "-", 0))
       ELSE Begin(t, "check-suspension", "findOne", params)
    /\ UNCHANGED <<store, now, outside>>

\* The lookup with the address as sent, not lowercased.
CheckSuspensionFindOne_AsSent(t) ==
    /\ At(t, "check-suspension", "findOne")
    /\ LET a == tasks[t].req.address IN
       IF a \in DOMAIN suspensions
       THEN Respond(t, Res(200, "isSuspended", suspensions[a].reason, 0))
       ELSE Respond(t, Res(200, "notSuspended", "-", 0))
    /\ UNCHANGED <<store, now, outside>>

\* Suspension.findOne({address: address.toLowerCase()})
CheckSuspensionFindOne(t) ==
    /\ At(t, "check-suspension", "findOne")
    /\ LET a == ToLowerCase(tasks[t].req.address) IN
       IF a \in DOMAIN suspensions
       THEN Respond(t, Res(200, "isSuspended", suspensions[a].reason, 0))
       ELSE Respond(t, Res(200, "notSuspended", "-", 0))
    /\ UNCHANGED <<store, now, outside>>

----------------------------------------------------------------------------
(* GET /api/transactions and GET /api/withdrawals *)

\* The "Admin access" branch is entered when both headers are there;
\* ethers.verifyMessage throws on a signature it cannot parse or recover.
VerifyThrows(h) ==
    /\ h.adminAddress # "" /\ h.signature # SigAbsent
    /\ ~isSignature(h.signature) \/ h.signature.signer = "throws"

AdminAccess(h) ==
    /\ h.adminAddress # "" /\ h.signature # SigAbsent
    /\ ~VerifyThrows(h)
    /\ verifyMessage(h.signature) = ToLowerCase(h.adminAddress)
    /\ ToLowerCase(h.adminAddress) = ToLowerCase(ADMIN_ADDRESS)

\* The arrays find(...).sort({createdAt: -1}) can resolve to: the documents
\* with these ids, each once, the later created first; documents created at
\* the same time come in any order.
Listing(coll, ids) ==
    {[i \in 1 .. Cardinality(ids) |-> [id |-> s[i], doc |-> coll[s[i]]]] :
        s \in {f \in [1 .. Cardinality(ids) -> ids] :
                  /\ \A i, j \in 1 .. Cardinality(ids) : i # j => f[i] # f[j]
                  /\ \A i, j \in 1 .. Cardinality(ids) :
                        i < j => coll[f[i]].createdAt >= coll[f[j]].createdAt}}

\* The user's listing with no filter on userId.
UserListing_Unfiltered(coll, userAddress) == Listing(coll, DOMAIN coll)

\* Model.find({userId: userAddress.toLowerCase()}).sort({createdAt: -1})
UserListing(coll, userAddress) ==
    Listing(coll, {id \in DOMAIN coll : coll[id].userId = ToLowerCase(userAddress)})

List(t, op, h) ==
    /\ tasks[t].pc = "idle"
    /\ IF VerifyThrows(h)
       THEN Reject(t, op, h, Res(500, "Server error", "-", 0))
       ELSE IF AdminAccess(h)
       THEN Begin(t, op, "findAll", h)
       ELSE IF h.userAddress = ""
       THEN Reject(t, op, h, Res(400, "Missing user address", "-", 0))
       ELSE IF ~isAddress(h.userAddress)
       THEN Reject(t, op, h, Res(400, "Invalid user address", "-", 0))
       ELSE Begin(t, op, "findSuspension", h)
    /\ UNCHANGED <<store, now, outside>>

\* Model.find().sort({createdAt: -1}); res.json(...)
ListFindAll(t, op, coll) ==
    /\ At(t, op, "findAll")
    /\ \E l \in Listing(coll, DOMAIN coll) :
          Respond(t, [Res(200, "-", "-", 0) EXCEPT !.list = l])
    /\ UNCHANGED <<store, now, outside>>

\* Suspension.findOne({address: userAddress.toLowerCase()})
ListFindSuspension(t, op) ==
    /\ At(t, op, "findSuspension")
    /\ LET a == ToLowerCase(tasks[t].req.userAddress) IN
       IF a \in DOMAIN suspensions
       THEN Respond(t, Res(403, "Account is suspended", suspensions[a].reason, 0))
       ELSE Goto(t, "find")
    /\ UNCHANGED <<store, now, outside>>

ListFind(t, op, coll) ==
    /\ At(t, op, "find")
    /\ \E l \in UserListing(coll, tasks[t].req.userAddress) :
          Respond(t, [Res(200, "-", "-", 0) EXCEPT !.list = l])
    /\ UNCHANGED <<store, now, outside>>

ListTransactions(t, h) == List(t, "transactions", h)
ListTransactionsFindAll(t) == ListFindAll(t, "transactions", transactions)
ListTransactionsFindSuspension(t) == ListFindSuspension(t, "transactions")
ListTransactionsFind(t) == ListFind(t, "transactions", transactions)

ListWithdrawals(t, h) == List(t, "withdrawals", h)
ListWithdrawalsFindAll(t) == ListFindAll(t, "withdrawals", withdrawals)
ListWithdrawalsFindSuspension(t) == ListFindSuspension(t, "withdrawals")
ListWithdrawalsFind(t) == ListFind(t, "withdrawals", withdrawals)

----------------------------------------------------------------------------
(* POST /relay and POST /relay-withdrawal *)

MissingRelayFields(body) ==
    \/ body.chainId = ""
    \/ body.contractAddress = ""
    \/ body.functionName = ""
    \/ ~body.args
    \/ body.userAddress = ""
    \/ body.signature = SigAbsent

\* The functions the two contract interface descriptions declare;
\* Interface.encodeFunctionData throws for any other name.
StakingFunctions == {"stake", "unstake"}
WithdrawalFunctions == {"executeMetaWithdrawal"}

\* The transaction envelope handed to relaySigner.sendTransaction, with the
\* route and the userAddress and signature of the request it was built for
\* (these two travel inside args).
Envelope(route, body) ==
    [route |-> route,
     to |-> body.contractAddress,
     functionName |-> body.functionName,
     gasLimit |-> 300000,
     gasPrice |-> 3,
     chainId |-> Number(body.chainId),
     speed |-> IF body.speed = "" THEN "fast" ELSE body.speed,
     value |-> 0,
     userAddress |-> body.userAddress,
     signature |-> body.signature]

\* The phrases the outer catch looks for, as far as an error message contains
\* them (String.prototype.includes, case-sensitive).
Phrases(message) ==
    CASE message = "authentication" -> {"authentication"}
      [] message = "API key and secret are required" -> {"API key and secret are required"}
      [] message = "Insufficient funds" -> {"Insufficient funds"}
      [] message = "status code 400" -> {"status code 400"}
      [] message = "authentication failed: Insufficient funds" -> {"authentication", "Insufficient funds"}
      [] message = "Insufficient funds (status code 400)" -> {"Insufficient funds", "status code 400"}
      [] message = "status code 400: authentication" -> {"status code 400", "authentication"}
      [] OTHER -> {}

Includes(message, phrase) == phrase \in Phrases(message)

\* The outer catch with the test for "Insufficient funds" made first.
RelayError_FundsFirst(message) ==
    IF Includes(message, "Insufficient funds")
    THEN Res(403, "Relayer has insufficient funds", "-", 0)
    ELSE IF Includes(message, "authentication") \/ Includes(message, "API key and secret are required")
    THEN Res(401, "Authentication failed", "-", 0)
    ELSE IF Includes(message, "status code 400")
    THEN Res(400, "Invalid transaction parameters", message, 0)
    ELSE Res(500, "Relay error", message, 0)

\* The outer catch: the status chosen from the error's message.
RelayError(message) ==
    IF Includes(message, "authentication") \/ Includes(message, "API key and secret are required")
    THEN Res(401, "Authentication failed", "-", 0)
    ELSE IF Includes(message, "Insufficient funds")
    THEN Res(403, "Relayer has insufficient funds", "-", 0)
    ELSE IF Includes(message, "status code 400")
    THEN Res(400, "Invalid transaction parameters", message, 0)
    ELSE Res(500, "Relay error", message, 0)

\* The handler throws, or an awaited call rejects, inside the outer try.
Catch(t, message) ==
    tasks' = [tasks EXCEPT ![t].pc = "done", ![t].res = RelayError(message), ![t].caught = message]

CatchAtOnce(t, op, req, message) ==
    tasks' = [tasks EXCEPT ![t] = [Idle EXCEPT !.op = op, !.pc = "done", !.req = req,
                                               !.res = RelayError(message), !.caught = message]]

\* The checks without the one on chainId.
RelayChecks_AnyChain(body, functions) ==
    IF ~isAddress(body.contractAddress) \/ ~isAddress(body.userAddress)
    THEN Res(400, "Invalid contractAddress or userAddress", "-", 0)
    ELSE IF body.signature = SigNotAString
    THEN RelayError("signature.match is not a function")
    ELSE IF ~isSignature(body.signature)
    THEN Res(400, "Invalid signature format", "-", 0)
    ELSE IF body.functionName \notin functions
    THEN RelayError("no matching function")
    ELSE NoRes

\* The checks with the signer of the signature compared with userAddress.
RelayChecks_SignerChecked(body, functions) ==
    IF Number(body.chainId) # 56
    THEN Res(400, "Invalid chainId, expected 56 (BSC)", "-", 0)
    ELSE IF ~isAddress(body.contractAddress) \/ ~isAddress(body.userAddress)
    THEN Res(400, "Invalid contractAddress or userAddress", "-", 0)
    ELSE IF body.signature = SigNotAString
    THEN RelayError("signature.match is not a function")
    ELSE IF ~isSignature(body.signature)
    THEN Res(400, "Invalid signature format", "-", 0)
    ELSE IF verifyMessage(body.signature) # ToLowerCase(body.userAddress)
    THEN Res(403, "Invalid signature", "-", 0)
    ELSE IF body.functionName \notin functions
    THEN RelayError("no matching function")
    ELSE NoRes

\* What follows the suspension lookup, up to the await of sendTransaction:
\* the response sent, NoRes when the envelope is built.
RelayChecks(body, functions) ==
    IF Number(body.chainId) # 56
    THEN Res(400, "Invalid chainId, expected 56 (BSC)", "-", 0)
    ELSE IF ~isAddress(body.contractAddress) \/ ~isAddress(body.userAddress)
    THEN Res(400, "Invalid contractAddress or userAddress", "-", 0)
    ELSE IF body.signature = SigNotAString
    THEN RelayError("signature.match is not a function")
    ELSE IF ~isSignature(body.signature)
    THEN Res(400, "Invalid signature format", "-", 0)
    ELSE IF body.functionName \notin functions
    THEN RelayError("no matching function")
    ELSE NoRes

SendOutcomes == {"hash", "authentication", "Insufficient funds", "status code 400", "timeout of 10000ms"}

\* Rejections whose message holds several of the phrases, or none of them.
MixedSendErrors ==
    {"API key and secret are required",
     "authentication failed: Insufficient funds",
     "Insufficient funds (status code 400)",
     "status code 400: authentication",
     "Authentication failed"}

\* provider.waitForTransaction resolves with the receipt once the transaction is
\* mined, or rejects (the 120000 ms timeout, a failing RPC call).
WaitOutcomes == {"receipt", "throws"}

\* The chain mines a submitted transaction: it succeeds or reverts.
Mine(i, status) ==
    /\ i \in 1 .. Len(relayed)
    /\ receipts[i] = "none"
    /\ receipts' = [receipts EXCEPT ![i] = status]
    /\ UNCHANGED <<store, now, relayed, notified, tasks>>

Chain == \E i \in 1 .. Len(relayed), status \in {"status 1", "status 0"} : Mine(i, status)

Relay(t, body) ==
    /\ tasks[t].pc = "idle"
    /\ IF MissingRelayFields(body)
       THEN Reject(t, "relay", body, Res(400, "Missing required fields", "-", 0))
       ELSE IF ~IsString(body.userAddress)
       THEN CatchAtOnce(t, "relay", body, "userAddress.toLowerCase is not a function")
       ELSE Begin(t, "relay", "findSuspension", body)
    /\ UNCHANGED <<store, now, outside>>

RelayFindSuspension(t) ==
    /\ At(t, "relay", "findSuspension")
    /\ LET a == ToLowerCase(tasks[t].req.userAddress)
           r == RelayChecks(tasks[t].req, StakingFunctions) IN
       IF a \in DOMAIN suspensions
       THEN Respond(t, Res(403, "Account is suspended", suspensions[a].reason, 0))
       ELSE IF r # NoRes
       THEN IF r.code = 500 THEN Catch(t, r.info) ELSE Respond(t, r)
       ELSE Goto(t, "send")
    /\ UNCHANGED <<store, now, outside>>

\* await relaySigner.sendTransaction(tx): a handle with a hash, or it rejects.
RelaySend(t, outcome) ==
    /\ At(t, "relay", "send")
    /\ IF outcome = "hash"
       THEN /\ relayed' = Append(relayed, Envelope("relay", tasks[t].req))
            /\ receipts' = Append(receipts, "none")
            /\ tasks' = [tasks EXCEPT ![t].pc = "wait", ![t].ref = Len(relayed) + 1]
       ELSE /\ UNCHANGED <<relayed, receipts>>
            /\ Catch(t, outcome)
    /\ UNCHANGED <<store, now, notified>>

\* The wait with its rejection left to the outer catch.
RelayWait_OuterCatch(t, outcome) ==
    /\ At(t, "relay", "wait")
    /\ outcome = "receipt" => receipts[tasks[t].ref] # "none"
    /\ Respond(t, CASE outcome = "throws" -> RelayError("timeout exceeded")
                    [] receipts[tasks[t].ref] = "status 1" -> Res(200, "success", "-", tasks[t].ref)
                    [] OTHER -> Res(500, "Transaction failed on-chain", "-", tasks[t].ref))
    /\ UNCHANGED <<store, now, outside>>

\* await provider.waitForTransaction(hash, 1, 120000)
RelayWait(t, outcome) ==
    /\ At(t, "relay", "wait")
    /\ outcome = "receipt" => receipts[tasks[t].ref] # "none"
    /\ Respond(t, CASE outcome = "throws" -> Res(500, "Failed to confirm transaction", "timeout exceeded", tasks[t].ref)
                    [] receipts[tasks[t].ref] = "status 1" -> Res(200, "success", "-", tasks[t].ref)
                    [] OTHER -> Res(500, "Transaction failed on-chain", "-", tasks[t].ref))
    /\ UNCHANGED <<store, now, outside>>

RelayWithdrawal(t, body) ==
    /\ tasks[t].pc = "idle"
    /\ IF MissingRelayFields(body)
       THEN Reject(t, "relay-withdrawal", body, Res(400, "Missing required fields", "-", 0))
       ELSE IF ~IsString(body.contractAddress)
       THEN CatchAtOnce(t, "relay-withdrawal", body, "contractAddress.toLowerCase is not a function")
       ELSE IF ToLowerCase(body.contractAddress) # ToLowerCase(WITHDRAWAL_CONTRACT_ADDRESS)
       THEN Reject(t, "relay-withdrawal", body, Res(400, "Invalid contract address for withdrawal", "-", 0))
       ELSE IF body.functionName # "executeMetaWithdrawal"
       THEN Reject(t, "relay-withdrawal", body, Res(400, "Invalid function name", "-", 0))
       ELSE IF ~IsString(body.userAddress)
       THEN CatchAtOnce(t, "relay-withdrawal", body, "userAddress.toLowerCase is not a function")
       ELSE Begin(t, "relay-withdrawal", "findSuspension", body)
    /\ UNCHANGED <<store, now, outside>>

\* The suspension lookup with the userAddress as sent, not lowercased.
RelayWithdrawalFindSuspension_AsSent(t) ==
    /\ At(t, "relay-withdrawal", "findSuspension")
    /\ LET a == tasks[t].req.userAddress
           r == RelayChecks(tasks[t].req, WithdrawalFunctions) IN
       IF a \in DOMAIN suspensions
       THEN Respond(t, Res(403, "Account is suspended", suspensions[a].reason, 0))
       ELSE IF r # NoRes
       THEN IF r.code = 500 THEN Catch(t, r.info) ELSE Respond(t, r)
       ELSE Goto(t, "send")
    /\ UNCHANGED <<store, now, outside>>

RelayWithdrawalFindSuspension(t) ==
    /\ At(t, "relay-withdrawal", "findSuspension")
    /\ LET a == ToLowerCase(tasks[t].req.userAddress)
           r == RelayChecks(tasks[t].req, WithdrawalFunctions) IN
       IF a \in DOMAIN suspensions
       THEN Respond(t, Res(403, "Account is suspended", suspensions[a].reason, 0))
       ELSE IF r # NoRes
       THEN IF r.code = 500 THEN Catch(t, r.info) ELSE Respond(t, r)
       ELSE Goto(t, "send")
    /\ UNCHANGED <<store, now, outside>>

RelayWithdrawalSend(t, outcome) ==
    /\ At(t, "relay-withdrawal", "send")
    /\ IF outcome = "hash"
       THEN /\ relayed' = Append(relayed, Envelope("relay-withdrawal", tasks[t].req))
            /\ receipts' = Append(receipts, "none")
            /\ tasks' = [tasks EXCEPT ![t].pc = "wait", ![t].ref = Len(relayed) + 1]
       ELSE /\ UNCHANGED <<relayed, receipts>>
            /\ Catch(t, outcome)
    /\ UNCHANGED <<store, now, notified>>

\* The wait without its timeout: it ends only with a receipt.
RelayWithdrawalWait_NoTimeout(t, outcome) ==
    /\ At(t, "relay-withdrawal", "wait")
    /\ receipts[tasks[t].ref] # "none"
    /\ Respond(t, IF receipts[tasks[t].ref] = "status 1"
                  THEN Res(200, "success", "-", tasks[t].ref)
                  ELSE Res(500, "Withdrawal transaction failed on-chain", "-", tasks[t].ref))
    /\ UNCHANGED <<store, now, outside>>

RelayWithdrawalWait(t, outcome) ==
    /\ At(t, "relay-withdrawal", "wait")
    /\ outcome = "receipt" => receipts[tasks[t].ref] # "none"
    /\ Respond(t, CASE outcome = "throws" -> Res(500, "Failed to confirm withdrawal transaction", "timeout exceeded", tasks[t].ref)
                    [] receipts[tasks[t].ref] = "status 1" -> Res(200, "success", "-", tasks[t].ref)
                    [] OTHER -> Res(500, "Withdrawal transaction failed on-chain", "-", tasks[t].ref))
    /\ UNCHANGED <<store, now, outside>>

----------------------------------------------------------------------------
(* Requests *)

AdminHeaders == [adminAddress |-> "0xad", signature |-> SigOf("0xad")]
OtherHeaders == [adminAddress |-> "0xbb", signature |-> SigOf("0xbb")]

TransactionBody(userId, usdtAmount) ==
    [userId |-> userId, name |-> "n", address |-> "0xdd",
     usdtAmount |-> usdtAmount, nairaAmount |-> 1000]

WithdrawalBody(userId, usdtAmount) ==
    [userId |-> userId, usdtAmount |-> usdtAmount, bankDetails |-> TRUE, txHash |-> "0xhash"]

IdBody(id) == [transactionId |-> id]

VerifyBody(h, id, status) ==
    [adminAddress |-> h.adminAddress, signature |-> h.signature,
     transactionId |-> id, status |-> status]

\* Creations in flight or done: caps the ObjectIds one behaviour generates.
Creating ==
    Cardinality({t \in Tasks : InFlight(t) /\ tasks[t].op \in {"create-transaction", "create-withdrawal"}
                                /\ tasks[t].pc # "notify"})

----------------------------------------------------------------------------
(* Handlers run one at a time: one request is taken, runs to its response,
   and only then the next one is taken. *)

SeqUsers == {"0xaa", "0xAa", "0xbb"}
SeqIds == 0 .. MaxIds

SeqTransactions == {TransactionBody(u, 100) : u \in SeqUsers} \cup {TransactionBody("0xaa", 0)}
SeqWithdrawals == {WithdrawalBody(u, 100) : u \in SeqUsers} \cup {WithdrawalBody("0xaa", 0)}

AdminVerifications(ids) ==
    {VerifyBody(AdminHeaders, id, st) : id \in ids, st \in {"verified", "failed"}}

SeqVerifications ==
    AdminVerifications(SeqIds)
    \cup {VerifyBody(AdminHeaders, id, "pending") : id \in SeqIds \ {0}}
    \cup {VerifyBody(OtherHeaders, id, "verified") : id \in SeqIds \ {0}}

LedgerRequest(t, txs, wds, ids, verifications, cap) ==
    \/ \E b \in txs : nextId + Creating < cap /\ CreateTransaction(t, b)
    \/ \E b \in wds : nextId + Creating < cap /\ CreateWithdrawal(t, b)
    \/ \E id \in ids : CancelTransaction(t, IdBody(id))
    \/ \E id \in ids : CancelWithdrawal(t, IdBody(id))
    \/ \E id \in ids : MarkPaid(t, IdBody(id))
    \/ \E b \in verifications : VerifyTransaction(t, b)
    \/ \E b \in verifications : VerifyWithdrawal(t, b)

StatusRequest(t, ids) ==
    \/ \E id \in ids : CheckStatus(t, IdBody(id))
    \/ \E id \in ids : CheckWithdrawalStatus(t, IdBody(id))

LedgerStep(t) ==
    \/ CreateTransactionFindSuspension(t)
    \/ CreateTransactionFindPending(t)
    \/ CreateTransactionSave(t)
    \/ CreateWithdrawalFindSuspension(t)
    \/ CreateWithdrawalFindPending(t)
    \/ CreateWithdrawalSave(t)
    \/ \E delivered \in BOOLEAN : CreateWithdrawalNotify(t, delivered)
    \/ CancelTransactionFindById(t)
    \/ CancelTransactionDelete(t)
    \/ CancelWithdrawalFindById(t)
    \/ CancelWithdrawalDelete(t)
    \/ MarkPaidFindById(t)
    \/ MarkPaidSave(t)
    \/ VerifyTransactionFindById(t)
    \/ VerifyTransactionSave(t)
    \/ VerifyWithdrawalFindById(t)
    \/ VerifyWithdrawalSave(t)
    \/ \E delivered \in BOOLEAN : VerifyWithdrawalNotify(t, delivered)

StatusStep(t) ==
    \/ CheckStatusFindById(t)
    \/ CheckWithdrawalStatusFindById(t)

NextSeq ==
    \/ LedgerRequest("t1", SeqTransactions, SeqWithdrawals, SeqIds, SeqVerifications, MaxIds)
    \/ StatusRequest("t1", SeqIds)
    \/ LedgerStep("t1")
    \/ StatusStep("t1")
    \/ Ack("t1")

SpecSeq == Init /\ [][NextSeq]_vars

----------------------------------------------------------------------------
(* The service as it runs: requests are taken while others are in flight,
   and the segments of different handlers interleave at every await. *)

RaceIds == 1 .. MaxRaceIds
RaceTransactions == {TransactionBody("0xaa", 100)}
RaceWithdrawals == {WithdrawalBody("0xaa", 100)}

Next ==
    \E t \in Tasks :
        \/ LedgerRequest(t, RaceTransactions, RaceWithdrawals, RaceIds, AdminVerifications(RaceIds), MaxRaceIds)
        \/ LedgerStep(t)
        \/ Ack(t)

Spec == Init /\ [][Next]_vars

----------------------------------------------------------------------------
(* Concurrent creations only. *)

CreateRequest(t, txs, wds, cap) ==
    \/ \E b \in txs : nextId + Creating < cap /\ CreateTransaction(t, b)
    \/ \E b \in wds : nextId + Creating < cap /\ CreateWithdrawal(t, b)

CreateStep(t) ==
    \/ CreateTransactionFindSuspension(t)
    \/ CreateTransactionFindPending(t)
    \/ CreateTransactionSave(t)
    \/ CreateWithdrawalFindSuspension(t)
    \/ CreateWithdrawalFindPending(t)
    \/ CreateWithdrawalSave(t)
    \/ \E delivered \in BOOLEAN : CreateWithdrawalNotify(t, delivered)

CreateUsers == {"0xaa", "0xAa", "0xbb"}

NextCreate ==
    \E t \in Tasks :
        \/ CreateRequest(t, {TransactionBody(u, 100) : u \in CreateUsers},
                            {WithdrawalBody(u, 100) : u \in CreateUsers}, MaxCreateIds)
        \/ CreateStep(t)
        \/ Ack(t)

SpecCreate == Init /\ [][NextCreate]_vars

----------------------------------------------------------------------------
(* Suspension, with creation and the relay; handlers one at a time. *)

SuspendBody(h, address, reason) ==
    [adminAddress |-> h.adminAddress, signature |-> h.signature,
     address |-> address, reason |-> reason]

RelayBody(contractAddress, functionName, userAddress, chainId) ==
    [contractAddress |-> contractAddress, functionName |-> functionName, args |-> TRUE,
     userAddress |-> userAddress, signature |-> SigOf(ToLowerCase(userAddress)),
     chainId |-> chainId, speed |-> ""]

GateUsers == {"0xaa", "0xAa", "0xbb"}
GateReasons == {"", "fraud"}

SuspensionRequest(t, headers, addresses, reasons) ==
    \/ \E h \in headers, a \in addresses, r \in reasons : Suspend(t, SuspendBody(h, a, r))
    \/ \E h \in headers, a \in addresses : Unsuspend(t, SuspendBody(h, a, ""))

SuspensionStep(t) ==
    \/ SuspendSave(t)
    \/ UnsuspendDelete(t)

RelayRequest(t, relays, withdrawalRelays) ==
    \/ \E b \in relays : Len(relayed) < MaxRelays /\ Relay(t, b)
    \/ \E b \in withdrawalRelays : Len(relayed) < MaxRelays /\ RelayWithdrawal(t, b)

RelayStep(t) ==
    \/ RelayFindSuspension(t)
    \/ \E o \in SendOutcomes : RelaySend(t, o)
    \/ \E o \in WaitOutcomes : RelayWait(t, o)
    \/ RelayWithdrawalFindSuspension(t)
    \/ \E o \in SendOutcomes : RelayWithdrawalSend(t, o)
    \/ \E o \in WaitOutcomes : RelayWithdrawalWait(t, o)

GateRelays ==
    {RelayBody("0xdd", "stake", u, "56") : u \in GateUsers} \cup {RelayBody("0xdd", "stake", "0xaa", "97")}
GateWithdrawalRelays ==
    {RelayBody("0xcc", "executeMetaWithdrawal", u, "56") : u \in GateUsers}
    \cup {RelayBody("0xdd", "executeMetaWithdrawal", "0xaa", "56")}

NextGate ==
    \/ CreateRequest("t1", {TransactionBody(u, 100) : u \in GateUsers} \cup {TransactionBody("0xaa", 0)},
                           {WithdrawalBody(u, 100) : u \in GateUsers} \cup {WithdrawalBody("0xaa", 0)},
                           MaxGateIds)
    \/ CreateStep("t1")
    \/ SuspensionRequest("t1", {AdminHeaders}, GateUsers, GateReasons)
    \/ SuspensionStep("t1")
    \/ RelayRequest("t1", GateRelays, GateWithdrawalRelays)
    \/ RelayStep("t1")
    \/ Chain
    \/ Ack("t1")

SpecGate == Init /\ [][NextGate]_vars

----------------------------------------------------------------------------
(* Suspension, with the whole ledger; handlers one at a time. *)

GateIds == 0 .. MaxGateIds

NextLedgerGate ==
    \/ LedgerRequest("t1", {TransactionBody(u, 100) : u \in GateUsers},
                           {WithdrawalBody(u, 100) : u \in GateUsers},
                           GateIds, AdminVerifications(GateIds), MaxGateIds)
    \/ LedgerStep("t1")
    \/ SuspensionRequest("t1", {AdminHeaders}, GateUsers, GateReasons)
    \/ SuspensionStep("t1")
    \/ Ack("t1")

SpecLedgerGate == Init /\ [][NextLedgerGate]_vars

----------------------------------------------------------------------------
(* Suspension against creation and relay in flight: handlers interleaved. *)

NextSuspendRace ==
    \/ \E t \in Tasks :
          \/ CreateRequest(t, RaceTransactions, RaceWithdrawals, MaxRaceIds)
          \/ CreateStep(t)
          \/ Suspend(t, SuspendBody(AdminHeaders, "0xAa", "fraud"))
          \/ SuspendSave(t)
          \/ RelayRequest(t, {RelayBody("0xdd", "stake", "0xaa", "56")},
                              {RelayBody("0xCc", "executeMetaWithdrawal", "0xaa", "56")})
          \/ RelayFindSuspension(t)
          \/ \E o \in {"hash", "Insufficient funds"} : RelaySend(t, o)
          \/ \E o \in WaitOutcomes : RelayWait(t, o)
          \/ RelayWithdrawalFindSuspension(t)
          \/ \E o \in {"hash", "Insufficient funds"} : RelayWithdrawalSend(t, o)
          \/ \E o \in WaitOutcomes : RelayWithdrawalWait(t, o)
          \/ Ack(t)
    \/ Chain

SpecSuspendRace == Init /\ [][NextSuspendRace]_vars

----------------------------------------------------------------------------
(* The admin-only routes under every kind of credentials; handlers one at a
   time. *)

Headers(adminAddress, signature) == [adminAddress |-> adminAddress, signature |-> signature]

AdminCredentials ==
    {AdminHeaders,                          \* the configured admin
     Headers("0xAD", SigOf("0xad")),        \* the same, address in mixed case
     OtherHeaders,                          \* a key that is not the admin, signing for itself
     Headers("0xad", SigOf("0xbb")),        \* the admin's address, another key's signature
     Headers("zz", SigOf("0xad")),          \* malformed address
     Headers("", SigOf("0xad")),            \* no address
     Headers("0xad", SigMalformed),
     Headers("0xad", SigAbsent),
     Headers("0xad", SigUnrecoverable)}

NextAdmin ==
    \/ LedgerRequest("t1", RaceTransactions, RaceWithdrawals, GateIds,
                      {VerifyBody(h, 1, st) : h \in AdminCredentials, st \in {"verified", "failed"}},
                      MaxGateIds)
    \/ LedgerStep("t1")
    \/ SuspensionRequest("t1", AdminCredentials, {"0xaa"}, GateReasons)
    \/ SuspensionStep("t1")
    \/ Ack("t1")

SpecAdmin == Init /\ [][NextAdmin]_vars

----------------------------------------------------------------------------
(* The two relay routes under well-formed and ill-formed bodies, with
   suspension; handlers one at a time. *)

RelayBodies ==
    {[contractAddress |-> c, functionName |-> f, args |-> TRUE, userAddress |-> u,
      signature |-> g, chainId |-> n, speed |-> ""] :
        c \in {"0xdd", "0xCc", "zz", NotAString},
        f \in {"stake", "executeMetaWithdrawal", "other"},
        u \in {"0xaa", "0xbb", "zz", NotAString},
        g \in {SigOf("0xaa"), SigOf("0xbb"), SigMalformed, SigNotAString},
        n \in {"56", "0x38", "97"}}
    \cup {[contractAddress |-> "zz", functionName |-> "other", args |-> TRUE, userAddress |-> u,
           signature |-> g, chainId |-> n, speed |-> "safeLow"] :
              u \in {"", "0xaa"}, g \in {SigAbsent, SigMalformed}, n \in {"", "97"}}

NextRelay ==
    \/ RelayRequest("t1", RelayBodies, RelayBodies)
    \/ RelayStep("t1")
    \/ \E m \in MixedSendErrors : RelaySend("t1", m)
    \/ \E m \in MixedSendErrors : RelayWithdrawalSend("t1", m)
    \/ SuspensionRequest("t1", {AdminHeaders}, {"0xaa"}, {"fraud"})
    \/ SuspensionStep("t1")
    \/ Chain
    \/ Ack("t1")

SpecRelay == Init /\ [][NextRelay]_vars

----------------------------------------------------------------------------
(* Relay calls interleaved, with the chain.  waitForTransaction is called
   with a timeout of 120000 ms, so a handler in its confirmation wait is
   resumed; nothing is assumed of the chain, of the relaying service or of
   the clients. *)

NextRelayLive ==
    \/ \E t \in Tasks :
          \/ RelayRequest(t, {RelayBody("0xdd", "stake", "0xaa", "56")},
                              {RelayBody("0xCc", "executeMetaWithdrawal", "0xaa", "56")})
          \/ RelayStep(t)
          \/ Ack(t)
    \/ Chain

WaitResumes(t) ==
    \/ \E o \in WaitOutcomes : RelayWait(t, o)
    \/ \E o \in WaitOutcomes : RelayWithdrawalWait(t, o)

SpecRelayLive ==
    /\ Init
    /\ [][NextRelayLive]_vars
    /\ \A t \in Tasks : WF_vars(WaitResumes(t))

----------------------------------------------------------------------------
(* Every route, with requests that are rejected and requests that are not;
   handlers one at a time. *)

ServiceUsers == {"0xaa", "zz"}

ServiceVerifications ==
    {VerifyBody(h, id, st) : h \in {AdminHeaders, OtherHeaders, Headers("0xad", SigMalformed)},
                             id \in GateIds, st \in {"verified", "pending"}}

ServiceRelays ==
    {RelayBody(c, "stake", u, n) : c \in {"0xdd", "zz"}, u \in {"0xaa", NotAString}, n \in {"56", "97", ""}}
ServiceWithdrawalRelays ==
    {RelayBody(c, "executeMetaWithdrawal", "0xaa", "56") : c \in {"0xCc", "0xdd"}}

NextService ==
    \/ LedgerRequest("t1", {TransactionBody(u, 100) : u \in ServiceUsers} \cup {TransactionBody("0xaa", 0)},
                           {WithdrawalBody(u, 100) : u \in ServiceUsers} \cup {WithdrawalBody("0xaa", 0)},
                           GateIds, ServiceVerifications, MaxGateIds)
    \/ LedgerStep("t1")
    \/ StatusRequest("t1", GateIds)
    \/ StatusStep("t1")
    \/ SuspensionRequest("t1", {AdminHeaders, OtherHeaders}, ServiceUsers, {"fraud"})
    \/ SuspensionStep("t1")
    \/ \E a \in ServiceUsers : CheckSuspension("t1", [address |-> a])
    \/ CheckSuspensionFindOne("t1")
    \/ RelayRequest("t1", ServiceRelays, ServiceWithdrawalRelays)
    \/ RelayStep("t1")
    \/ Chain
    \/ Ack("t1")

SpecService == Init /\ [][NextService]_vars

----------------------------------------------------------------------------
(* Suspend and unsuspend calls of the admin, interleaved, as time passes. *)

NextSuspend ==
    \/ \E t \in Tasks :
          \/ SuspensionRequest(t, {AdminHeaders}, GateUsers, GateReasons)
          \/ SuspensionStep(t)
          \/ Ack(t)
    \/ Tick

SpecSuspend == Init /\ [][NextSuspend]_vars

----------------------------------------------------------------------------
(* One address written in different case by the admin and by its user;
   handlers one at a time, the relaying service out of funds. *)

CaseTransactionBody(userId, usdtAmount) ==
    [TransactionBody(userId, usdtAmount) EXCEPT !.address = "0xCc"]

CaseAdmins == {AdminHeaders, Headers("0xAD", SigOf("0xad"))}
CaseSuspended == {"0xAa", "0xbb"}    \* the addresses as the admin writes them in suspend
CaseUsers == {"0xaa", "0xBb"}        \* the same addresses as written in every other call

NextCase ==
    \/ CreateRequest("t1", {CaseTransactionBody(u, 100) : u \in CaseUsers \cup {"0xAa"}}
                               \cup {CaseTransactionBody("0xaa", 0)},
                           {WithdrawalBody(u, 100) : u \in CaseUsers \cup {"0xAa"}}
                               \cup {WithdrawalBody("0xaa", 0)},
                           MaxCreateIds)
    \/ CreateStep("t1")
    \/ \E h \in CaseAdmins, a \in CaseSuspended : Suspend("t1", SuspendBody(h, a, "fraud"))
    \/ \E a \in CaseUsers : Unsuspend("t1", SuspendBody(AdminHeaders, a, ""))
    \/ SuspensionStep("t1")
    \/ \E a \in CaseUsers : CheckSuspension("t1", [address |-> a])
    \/ CheckSuspensionFindOne("t1")
    \/ \E u \in CaseUsers : Relay("t1", RelayBody("0xdd", "stake", u, "56"))
    \/ RelayFindSuspension("t1")
    \/ RelaySend("t1", "Insufficient funds")
    \/ \E u \in CaseUsers : RelayWithdrawal("t1", RelayBody("0xCc", "executeMetaWithdrawal", u, "56"))
    \/ RelayWithdrawalFindSuspension("t1")
    \/ RelayWithdrawalSend("t1", "Insufficient funds")
    \/ Ack("t1")

SpecCase == Init /\ [][NextCase]_vars

----------------------------------------------------------------------------
(* The list routes, with creations by two users, the suspension of one of
   them and the clock; handlers one at a time. *)

ListHeaders(userAddress, adminAddress, signature) ==
    [userAddress |-> userAddress, adminAddress |-> adminAddress, signature |-> signature]

ListCallers ==
    {ListHeaders(u, "", SigAbsent) : u \in {"0xaa", "0xAa", "0xbb", "", "zz"}}
    \cup {ListHeaders("", "0xad", SigOf("0xad")),          \* the configured admin
          ListHeaders("0xbb", "0xAD", SigOf("0xad")),      \* the same, with a userAddress
          ListHeaders("0xaa", "0xbb", SigOf("0xbb")),      \* a key that is not the admin
          ListHeaders("0xaa", "0xad", SigOf("0xbb")),      \* the admin's address, another key
          ListHeaders("0xaa", "0xad", SigAbsent),          \* the admin's address, no signature
          ListHeaders("", "0xbb", SigOf("0xbb")),
          ListHeaders("0xaa", "0xad", SigMalformed),
          ListHeaders("0xaa", "0xad", SigUnrecoverable)}

ListUsers == {"0xaa", "0xbb"}

NextList ==
    \/ CreateRequest("t1", {TransactionBody(u, 100) : u \in ListUsers},
                           {WithdrawalBody(u, 100) : u \in ListUsers}, MaxCreateIds)
    \/ CreateStep("t1")
    \/ SuspensionRequest("t1", {AdminHeaders}, {"0xaa"}, {"fraud"})
    \/ SuspensionStep("t1")
    \/ \E h \in ListCallers : ListTransactions("t1", h)
    \/ ListTransactionsFindAll("t1")
    \/ ListTransactionsFindSuspension("t1")
    \/ ListTransactionsFind("t1")
    \/ \E h \in ListCallers : ListWithdrawals("t1", h)
    \/ ListWithdrawalsFindAll("t1")
    \/ ListWithdrawalsFindSuspension("t1")
    \/ ListWithdrawalsFind("t1")
    \/ Tick
    \/ Ack("t1")

SpecList == Init /\ [][NextList]_vars

----------------------------------------------------------------------------
(* The service as it runs, as time passes. *)

NextClock ==
    \/ Next
    \/ Tick

SpecClock == Init /\ [][NextClock]_vars

----------------------------------------------------------------------------
(* Properties *)

Done(t, op) == tasks[t].op = op /\ tasks[t].pc = "done"

\* Task t takes a step of its handler.
Steps(t) == tasks'[t] # tasks[t]

StoreUnchanged == UNCHANGED <<transactions, withdrawals, suspensions, nextId>>

OnePendingPerUser(coll) ==
    \A i \in DOMAIN coll, j \in DOMAIN coll :
        (coll[i].status = "pending" /\ coll[j].status = "pending"
            /\ coll[i].userId = coll[j].userId) => i = j

\* The pending lookup of a create, for a user with a pending record of the
\* type, answers 400 with the id of that record; the step stores nothing.
CreateConflict(coll, op) ==
    \A t \in Tasks :
        (At(t, op, "findPending") /\ Steps(t)
            /\ PendingOf(coll, ToLowerCase(tasks[t].req.userId)) # {})
        => /\ tasks'[t].pc = "done"
           /\ tasks'[t].res.code = 400
           /\ tasks'[t].res.id \in PendingOf(coll, ToLowerCase(tasks[t].req.userId))
           /\ StoreUnchanged

\* C1: with handlers run one at a time there is at most one pending record
\* per (userId, type) in every reachable state, and a create for a user who
\* has a pending record of the type is answered 400 with the id of that
\* record and adds no record.
C1_OnePendingSequential ==
    /\ [](OnePendingPerUser(transactions) /\ OnePendingPerUser(withdrawals))
    /\ [][CreateConflict(transactions, "create-transaction")
            /\ CreateConflict(withdrawals, "create-withdrawal")]_vars

C1_Witness ==
    \E t \in Tasks :
        /\ Done(t, "create-transaction")
        /\ tasks[t].res.code = 400
        /\ tasks[t].res.id \in PendingOf(transactions, ToLowerCase(tasks[t].req.userId))
        /\ tasks[t].req.userId = "0xAa"

\* The change of document id of a collection in one step, and the handler
\* whose step it is.
Created(coll, collNext, id) ==
    id \notin DOMAIN coll /\ id \in DOMAIN collNext /\ collNext[id].status = "pending"

Deleted(coll, collNext, id, from) ==
    id \in DOMAIN coll /\ id \notin DOMAIN collNext /\ coll[id].status = from

Moved(coll, collNext, id, from, to) ==
    /\ id \in DOMAIN coll /\ id \in DOMAIN collNext
    /\ coll[id].status = from /\ collNext[id].status = to

Same(coll, collNext, id) ==
    \/ id \notin DOMAIN coll /\ id \notin DOMAIN collNext
    \/ id \in DOMAIN coll /\ id \in DOMAIN collNext /\ collNext[id].status = coll[id].status

By(op) == \E t \in Tasks : tasks[t].op = op /\ InFlight(t) /\ Steps(t)

TransactionLifecycle(id) ==
    \/ Same(transactions, transactions', id)
    \/ Created(transactions, transactions', id) /\ By("create-transaction")
    \/ Deleted(transactions, transactions', id, "pending") /\ By("cancel-transaction")
    \/ Moved(transactions, transactions', id, "pending", "awaiting verification") /\ By("mark-paid")
    \/ \E to \in {"verified", "failed"} :
          Moved(transactions, transactions', id, "awaiting verification", to) /\ By("verify-transaction")

WithdrawalLifecycle(id) ==
    \/ Same(withdrawals, withdrawals', id)
    \/ Created(withdrawals, withdrawals', id) /\ By("create-withdrawal")
    \/ Deleted(withdrawals, withdrawals', id, "pending") /\ By("cancel-withdrawal")
    \/ \E from \in {"pending", "awaiting verification"}, to \in {"verified", "failed"} :
          Moved(withdrawals, withdrawals', id, from, to) /\ By("verify-withdrawal")

StatusInEnum ==
    /\ \A id \in DOMAIN transactions : transactions[id].status \in StatusEnum
    /\ \A id \in DOMAIN withdrawals : withdrawals[id].status \in StatusEnum

\* C3: with handlers run one at a time, every change to a stored request is
\* a creation as pending, a cancel deleting a pending record, mark-paid
\* moving a Transaction from pending to awaiting verification, or a verify
\* moving a record to verified or failed from awaiting verification (from
\* pending too for a Withdrawal); status is always one of the four values.
C3_LifecycleSequential ==
    /\ []StatusInEnum
    /\ [][/\ \A id \in DOMAIN transactions \cup DOMAIN transactions' : TransactionLifecycle(id)
          /\ \A id \in DOMAIN withdrawals \cup DOMAIN withdrawals' : WithdrawalLifecycle(id)]_vars

C3_Witness ==
    /\ \E id \in DOMAIN transactions : transactions[id].status = "failed"
    /\ \E id \in DOMAIN withdrawals : withdrawals[id].status = "verified"
    /\ \E t \in Tasks : Done(t, "verify-withdrawal") /\ tasks[t].doc.status = "pending"

\* The ids generated so far that resolve to no document: the cancelled ones.
Cancelled == {id \in 1 .. nextId : id \notin DOMAIN transactions /\ id \notin DOMAIN withdrawals}

\* The lookup of cancel: 404 without a document, 400 naming the status of a
\* document that is not pending (the store stays as it is), on to the
\* delete otherwise.
CancelLookup(coll, op) ==
    \A t \in Tasks :
        (At(t, op, "findById") /\ Steps(t)) =>
            LET id == tasks[t].req.transactionId IN
            IF id \notin DOMAIN coll
            THEN tasks'[t].pc = "done" /\ tasks'[t].res.code = 404 /\ StoreUnchanged
            ELSE IF coll[id].status # "pending"
            THEN /\ tasks'[t].pc = "done" /\ tasks'[t].res.code = 400
                 /\ tasks'[t].res.info = coll[id].status
                 /\ StoreUnchanged
            ELSE tasks'[t].pc = "delete" /\ StoreUnchanged

\* The delete of cancel removes the document, which is pending, and no other.
CancelDelete(coll, collNext, op) ==
    \A t \in Tasks :
        (At(t, op, "delete") /\ Steps(t)) =>
            LET id == tasks[t].req.transactionId IN
            /\ id \in DOMAIN coll /\ coll[id].status = "pending"
            /\ collNext = Remove(coll, id)
            /\ tasks'[t].pc = "done" /\ tasks'[t].res.code = 200

\* Every lookup by id of a handler of the collection, for an id that resolves
\* to no document, answers 404.
LookupNotFound(coll, ops) ==
    \A t \in Tasks :
        (tasks[t].op \in ops /\ tasks[t].pc = "findById" /\ Steps(t)
            /\ tasks[t].req.transactionId \notin DOMAIN coll)
        => tasks'[t].pc = "done" /\ tasks'[t].res.code = 404

TransactionLookups == {"check-status", "cancel-transaction", "mark-paid", "verify-transaction"}
WithdrawalLookups == {"check-withdrawal-status", "cancel-withdrawal", "verify-withdrawal"}

\* C7: with handlers run one at a time, cancel of an unknown id answers 404;
\* of a record that is not pending, 400 naming its status, the record staying
\* stored unchanged; of a pending record, it deletes the record, the id never
\* resolves again, and check-status, cancel, mark-paid and verify of it all
\* answer 404.
C7_CancelSequential ==
    [][/\ CancelLookup(transactions, "cancel-transaction")
       /\ CancelLookup(withdrawals, "cancel-withdrawal")
       /\ CancelDelete(transactions, transactions', "cancel-transaction")
       /\ CancelDelete(withdrawals, withdrawals', "cancel-withdrawal")
       /\ LookupNotFound(transactions, TransactionLookups)
       /\ LookupNotFound(withdrawals, WithdrawalLookups)
       /\ \A id \in Cancelled : id \notin DOMAIN transactions' /\ id \notin DOMAIN withdrawals']_vars

C7_Witness ==
    \E t \in Tasks :
        /\ Done(t, "mark-paid")
        /\ tasks[t].req.transactionId \in Cancelled
        /\ tasks[t].res.code = 404

\* C2: a create goes on to its save only when its own lookup found no pending
\* record of the user; nothing is looked up again at the save, so two creates
\* of one user whose lookups both precede both saves leave two pending records
\* (the state C2_Witness).
C2_SaveAfterEmptyLookup ==
    [][\A t \in Tasks :
          /\ (At(t, "create-transaction", "findPending") /\ Steps(t) /\ tasks'[t].pc = "save")
                => PendingOf(transactions, ToLowerCase(tasks[t].req.userId)) = {}
          /\ (At(t, "create-withdrawal", "findPending") /\ Steps(t) /\ tasks'[t].pc = "save")
                => PendingOf(withdrawals, ToLowerCase(tasks[t].req.userId)) = {}]_vars

C2_Witness ==
    /\ ~OnePendingPerUser(transactions)
    /\ \A t \in Tasks : Done(t, "create-transaction") /\ tasks[t].res.code = 200

\* C4 as claimed: under any interleaving, a record whose stored status is
\* verified or failed keeps that status and stays stored.
Terminal(coll, collNext) ==
    \A id \in DOMAIN coll :
        coll[id].status \in {"verified", "failed"}
            => id \in DOMAIN collNext /\ collNext[id].status = coll[id].status

C4_TerminalIsFinal ==
    [][Terminal(transactions, transactions') /\ Terminal(withdrawals, withdrawals')]_vars

\* C8 as claimed: under any interleaving, a record that is deleted has the
\* stored status pending at the moment of the deletion.
DeletedOnlyPending(coll, collNext) ==
    \A id \in DOMAIN coll : id \notin DOMAIN collNext => coll[id].status = "pending"

C8_DeleteOnlyPending ==
    [][DeletedOnlyPending(transactions, transactions')
        /\ DeletedOnlyPending(withdrawals, withdrawals')]_vars

VerifyOps == {"verify-transaction", "verify-withdrawal"}

CollectionOf(op) == IF op = "verify-transaction" THEN transactions ELSE withdrawals

VerifyFrom(op) ==
    IF op = "verify-transaction"
    THEN {"awaiting verification"}
    ELSE {"pending", "awaiting verification"}

\* C5 as claimed, for a finished verify call that passed the admin check with
\* a well-formed id (handlers one at a time): 400 for an outcome other than
\* verified or failed, 404 for an id that resolves to nothing; otherwise
\* either success, the record having been in the required status and now
\* carrying the outcome, or 400 naming the status of a record that is not in
\* the required status.
C5_VerifyOutcome ==
    \A t \in Tasks :
        LET op == tasks[t].op
            req == tasks[t].req
            res == tasks[t].res
            coll == CollectionOf(op) IN
        (tasks[t].pc = "done" /\ op \in VerifyOps
            /\ adminMiddleware(req) = NoRes /\ isValidObjectId(req.transactionId))
        => IF req.status \notin {"verified", "failed"}
           THEN res.code = 400
           ELSE IF req.transactionId \notin DOMAIN coll
           THEN res.code = 404
           ELSE \/ /\ res.code = 200
                   /\ tasks[t].doc.status \in VerifyFrom(op)
                   /\ coll[req.transactionId].status = req.status
                \/ /\ res.code = 400
                   /\ res.info = coll[req.transactionId].status
                   /\ res.info \notin VerifyFrom(op)

\* C6 as claimed: once a verify call on an id has answered success, a verify
\* call on that id taken afterwards finds the record with the status the
\* first call set, and the lookup of a verify call on that id answers 400.
C6_LaterVerifyConflicts ==
    [][\A op \in VerifyOps : \A first \in Tasks : \A later \in Tasks \ {first} :
          (Done(first, op) /\ tasks[first].res.code = 200 /\ Steps(later))
          => LET id == tasks[first].req.transactionId IN
             /\ (tasks[later].pc = "idle" /\ tasks'[later].op = op
                    /\ tasks'[later].pc = "findById" /\ tasks'[later].req.transactionId = id)
                => (id \in DOMAIN CollectionOf(op)
                      /\ CollectionOf(op)[id].status = tasks[first].req.status)
             /\ (At(later, op, "findById") /\ tasks[later].req.transactionId = id)
                => (tasks'[later].pc = "done" /\ tasks'[later].res.code = 400)]_vars

\* The address a gated handler looks up in the suspension registry.
GatedUser(t) ==
    ToLowerCase(IF tasks[t].op \in {"relay", "relay-withdrawal"}
                THEN tasks[t].req.userAddress
                ELSE tasks[t].req.userId)

RejectedAsSuspended(task) == task.res.code = 403 /\ task.res.error = "Account is suspended"

\* The suspension lookup of a handler: for a suspended user it ends the call
\* with 403 and the stored reason, and nothing is stored, submitted or
\* notified; for any other user it does not answer that.
SuspensionGate(ops) ==
    \A t \in Tasks :
        (tasks[t].op \in ops /\ tasks[t].pc = "findSuspension" /\ Steps(t)) =>
            IF GatedUser(t) \in DOMAIN suspensions
            THEN /\ tasks'[t].pc = "done"
                 /\ RejectedAsSuspended(tasks'[t])
                 /\ tasks'[t].res.info = suspensions[GatedUser(t)].reason
                 /\ StoreUnchanged /\ UNCHANGED <<relayed, notified>>
            ELSE ~RejectedAsSuspended(tasks'[t])

GatedOps == {"create-transaction", "create-withdrawal", "relay", "relay-withdrawal"}

\* A finished call of a gated handler was rejected as suspended exactly when
\* its user has a suspension record, unless an earlier check had ended it.
GateDecided ==
    \A t \in Tasks :
        (tasks[t].pc = "done" /\ tasks[t].op \in GatedOps) =>
            /\ RejectedAsSuspended(tasks[t])
                  => (GatedUser(t) \in DOMAIN suspensions
                        /\ tasks[t].res.info = suspensions[GatedUser(t)].reason)
            /\ (GatedUser(t) \in DOMAIN suspensions /\ ~RejectedAsSuspended(tasks[t]))
                  => tasks[t].res.code = 400

\* C9: with handlers run one at a time, while a suspension record exists for
\* the lowercased address of the user, a create-transaction,
\* create-withdrawal, /relay or /relay-withdrawal call that passes the
\* earlier checks is answered 403 with the stored reason, stores nothing and
\* submits nothing; with no record (after an unsuspend) it is not rejected
\* for suspension.
C9_SuspensionGatesCreateAndRelay ==
    /\ []GateDecided
    /\ [][SuspensionGate(GatedOps)]_vars

C9_Witness ==
    \E t \in Tasks :
        /\ Done(t, "relay-withdrawal")
        /\ tasks[t].req.userAddress = "0xAa"
        /\ RejectedAsSuspended(tasks[t])
        /\ tasks[t].res.info = "fraud"

\* C10 as claimed: a record of a suspended user is left as it is, and no
\* record is created for a suspended user.
Frozen(coll, collNext) ==
    /\ \A id \in DOMAIN coll :
          coll[id].userId \in DOMAIN suspensions
              => id \in DOMAIN collNext /\ collNext[id] = coll[id]
    /\ \A id \in DOMAIN collNext \ DOMAIN coll : collNext[id].userId \notin DOMAIN suspensions

UngatedOps ==
    {"cancel-transaction", "cancel-withdrawal", "mark-paid", "verify-transaction", "verify-withdrawal"}

\* The lookup by id of cancel, mark-paid and verify decides on the document
\* alone: a document in a status the handler accepts sends it on to its
\* write, suspended user or not.
UngatedLookup(coll, op, from, next) ==
    \A t \in Tasks :
        (At(t, op, "findById") /\ Steps(t)
            /\ tasks[t].req.transactionId \in DOMAIN coll
            /\ coll[tasks[t].req.transactionId].status \in from)
        => tasks'[t].pc = next

PersistsThoughSuspended(coll, collNext, op, pcNext) ==
    \A t \in Tasks :
        (At(t, op, "save") /\ Steps(t) /\ GatedUser(t) \in DOMAIN suspensions) =>
            /\ \E id \in DOMAIN collNext \ DOMAIN coll :
                  collNext[id].userId = GatedUser(t) /\ collNext[id].status = "pending"
            /\ tasks'[t].pc = pcNext
            /\ ~RejectedAsSuspended(tasks'[t])

SubmitsThoughSuspended(op) ==
    \A t \in Tasks :
        (At(t, op, "send") /\ Steps(t) /\ GatedUser(t) \in DOMAIN suspensions) =>
            /\ ~RejectedAsSuspended(tasks'[t])
            /\ \/ tasks'[t].pc = "wait" /\ relayed' = Append(relayed, Envelope(op, tasks[t].req))
               \/ tasks'[t].pc = "done" /\ relayed' = relayed /\ tasks'[t].res.error # "success"

\* C11: the suspension lookup and the action it gates are separate steps: a
\* create that passed its lookup before a suspend of its user committed
\* still stores its pending record, and a relay still submits its envelope
\* to the relaying service.
C11_SuspendedAfterLookup ==
    [][/\ PersistsThoughSuspended(transactions, transactions', "create-transaction", "done")
       /\ PersistsThoughSuspended(withdrawals, withdrawals', "create-withdrawal", "notify")
       /\ SubmitsThoughSuspended("relay")
       /\ SubmitsThoughSuspended("relay-withdrawal")]_vars

C11_Witness ==
    \E t \in Tasks, s \in Tasks :
        /\ At(t, "create-transaction", "save")
        /\ Done(s, "suspend") /\ tasks[s].res.code = 200
        /\ ToLowerCase(tasks[s].req.address) = GatedUser(t)
        /\ GatedUser(t) \in DOMAIN suspensions

AdminOps == {"verify-transaction", "verify-withdrawal", "suspend", "unsuspend"}

WellFormedCredentials(h) == isAddress(h.adminAddress) /\ isSignature(h.signature)

\* The signature recovers to adminAddress, and adminAddress is the
\* configured admin; both compared in lower case.
Authorized(h) ==
    /\ WellFormedCredentials(h)
    /\ h.signature.signer # "throws"
    /\ ToLowerCase(h.signature.signer) = ToLowerCase(h.adminAddress)
    /\ ToLowerCase(h.adminAddress) = ToLowerCase(ADMIN_ADDRESS)

MiddlewareErrors ==
    {"Invalid admin address", "Invalid or missing signature", "Authentication failed",
     "Invalid signature", "Not authorized as admin"}

\* A request to an admin-only route with credentials that are not the
\* admin's is answered at once by the middleware, 400 for malformed and 403
\* for well-formed credentials, and nothing changes.
AdminRejected ==
    \A t \in Tasks :
        (tasks[t].pc = "idle" /\ tasks'[t].op \in AdminOps /\ ~Authorized(tasks'[t].req)) =>
            /\ tasks'[t].pc = "done"
            /\ tasks'[t].res.error \in MiddlewareErrors
            /\ tasks'[t].res.code = IF WellFormedCredentials(tasks'[t].req) THEN 403 ELSE 400
            /\ StoreUnchanged /\ UNCHANGED outside

\* Whatever an admin-only handler does past the middleware, it does for the
\* admin's credentials.
AdminOnly ==
    \A t \in Tasks :
        (tasks'[t].op \in AdminOps /\ tasks'[t].res.error \notin MiddlewareErrors)
            => Authorized(tasks'[t].req)

\* C12: verify-transaction, verify-withdrawal, suspend and unsuspend run
\* their handler, and so change records, only for well-formed credentials
\* whose signature recovers to adminAddress and whose adminAddress is the
\* configured admin, both case-insensitively; malformed credentials are
\* answered 400, a signer mismatch or a non-admin key 403, and nothing
\* changes.
C12_AdminOnly ==
    [][AdminRejected /\ AdminOnly]_vars

C12_Witness ==
    \E t \in Tasks :
        /\ Done(t, "suspend")
        /\ tasks[t].req.adminAddress = "0xbb" /\ tasks[t].req.signature = SigOf("0xbb")
        /\ tasks[t].res.code = 403 /\ tasks[t].res.error = "Not authorized as admin"
        /\ ToLowerCase(tasks[t].req.address) \notin DOMAIN suspensions

RelayOps == {"relay", "relay-withdrawal"}

EnvelopeValidated(e) ==
    /\ e.chainId = 56
    /\ isAddress(e.to) /\ isAddress(e.userAddress)
    /\ isSignature(e.signature)
    /\ e.route = "relay-withdrawal" =>
          /\ ToLowerCase(e.to) = ToLowerCase(WITHDRAWAL_CONTRACT_ADDRESS)
          /\ e.functionName = "executeMetaWithdrawal"

\* An envelope is submitted only by a relay handler at its send, and a relay
\* handler gets to its send only past a suspension lookup that found nothing.
SubmittedAfterLookup ==
    /\ relayed' # relayed =>
          \E t \in Tasks : /\ tasks[t].op \in RelayOps /\ tasks[t].pc = "send"
                           /\ relayed' = Append(relayed, Envelope(tasks[t].op, tasks[t].req))
    /\ \A t \in Tasks :
          (tasks[t].op \in RelayOps /\ tasks[t].pc # "send" /\ tasks'[t].pc = "send") =>
              /\ tasks[t].pc = "findSuspension"
              /\ GatedUser(t) \notin DOMAIN suspensions

\* C13: every envelope submitted to the relaying service has chainId 56,
\* well-formed contract and user addresses and a well-formed signature, and
\* was built after a suspension lookup that found no record; one submitted
\* by /relay-withdrawal goes to the configured withdrawal contract and
\* calls executeMetaWithdrawal.
C13_SubmittedOnlyValidated ==
    /\ [](\A i \in 1 .. Len(relayed) : EnvelopeValidated(relayed[i]))
    /\ [][SubmittedAfterLookup]_vars

C13_Witness ==
    \E t \in Tasks :
        /\ Done(t, "relay-withdrawal")
        /\ tasks[t].req.chainId = "0x38" /\ tasks[t].req.contractAddress = "0xCc"
        /\ tasks[t].res.code = 200
        /\ relayed[tasks[t].res.id].route = "relay-withdrawal"
        /\ relayed[tasks[t].res.id].chainId = 56

\* The rejection of the first failing check, in the order: missing field;
\* (withdrawal route) contract, function name; suspension; chainId;
\* addresses; signature.  NoRes when no check fails.
FirstFailingCheck(op, body) ==
    IF MissingRelayFields(body)
    THEN Res(400, "Missing required fields", "-", 0)
    ELSE IF op = "relay-withdrawal"
            /\ ToLowerCase(body.contractAddress) # ToLowerCase(WITHDRAWAL_CONTRACT_ADDRESS)
    THEN Res(400, "Invalid contract address for withdrawal", "-", 0)
    ELSE IF op = "relay-withdrawal" /\ body.functionName # "executeMetaWithdrawal"
    THEN Res(400, "Invalid function name", "-", 0)
    ELSE IF ToLowerCase(body.userAddress) \in DOMAIN suspensions
    THEN Res(403, "Account is suspended", suspensions[ToLowerCase(body.userAddress)].reason, 0)
    ELSE IF Number(body.chainId) # 56
    THEN Res(400, "Invalid chainId, expected 56 (BSC)", "-", 0)
    ELSE IF ~isAddress(body.contractAddress) \/ ~isAddress(body.userAddress)
    THEN Res(400, "Invalid contractAddress or userAddress", "-", 0)
    ELSE IF ~isSignature(body.signature)
    THEN Res(400, "Invalid signature format", "-", 0)
    ELSE NoRes

\* C14: a relay request that fails one or more validations is answered with
\* the rejection of the first failing check in the fixed order (missing
\* field 400; withdrawal route: contract 400, function name 400; suspended
\* 403 with the reason; chainId 400; malformed address 400; malformed
\* signature 400).
C14_FirstFailingCheckReported ==
    \A t \in Tasks :
        (tasks[t].pc = "done" /\ tasks[t].op \in RelayOps
            /\ FirstFailingCheck(tasks[t].op, tasks[t].req) # NoRes)
        => tasks[t].res = FirstFailingCheck(tasks[t].op, tasks[t].req)

ConfirmationFailures == {"Failed to confirm transaction", "Failed to confirm withdrawal transaction"}
OnChainFailures == {"Transaction failed on-chain", "Withdrawal transaction failed on-chain"}

\* The end of the confirmation wait: one of three responses, each with the
\* hash the relaying service returned.
WaitEnds ==
    \A t \in Tasks :
        (tasks[t].op \in RelayOps /\ tasks[t].pc = "wait" /\ Steps(t)) =>
            /\ tasks'[t].pc = "done"
            /\ tasks[t].ref \in 1 .. Len(relayed)
            /\ tasks'[t].res.id = tasks[t].ref
            /\ \/ /\ tasks'[t].res.code = 200 /\ tasks'[t].res.error = "success"
                  /\ receipts[tasks[t].ref] = "status 1"
               \/ /\ tasks'[t].res.code = 500 /\ tasks'[t].res.error \in OnChainFailures
                  /\ receipts[tasks[t].ref] = "status 0"
               \/ /\ tasks'[t].res.code = 500 /\ tasks'[t].res.error \in ConfirmationFailures

\* A relay response carries a hash exactly when the call had obtained one:
\* the responses sent before the wait carry none and are none of the three.
HashIffSubmitted ==
    \A t \in Tasks :
        (tasks[t].op \in RelayOps /\ tasks[t].pc # "wait" /\ tasks'[t].pc = "done" /\ Steps(t)) =>
            /\ tasks'[t].res.id = 0
            /\ tasks'[t].res.error \notin {"success"} \cup OnChainFailures \cup ConfirmationFailures

\* C15: once the relaying service has returned a hash the call ends in one
\* of three outcomes, each with that hash: success when the receipt's
\* status is 1, "failed on-chain" when it is not, "Failed to confirm" when
\* the wait rejects; success is answered only for status 1 and a failed
\* confirmation is never answered as a submission failure without the hash.
C15_ThreeOutcomesWithHash ==
    [][WaitEnds /\ HashIffSubmitted]_vars

C15_Witness ==
    \E t \in Tasks :
        /\ Done(t, "relay")
        /\ tasks[t].res.error = "Failed to confirm transaction"
        /\ tasks[t].res.id = 1
        /\ receipts[1] = "status 1"

Waiting(t) == tasks[t].op \in RelayOps /\ tasks[t].pc = "wait"

\* The end of a wait leaves the submitted envelopes and the chain as they are.
WaitRetractsNothing ==
    \A t \in Tasks : (Waiting(t) /\ Steps(t)) => UNCHANGED <<relayed, receipts>>

\* C16: every relay call that has its hash from the relaying service
\* eventually sends its response, mined or not, and the end of the wait
\* does not retract the submitted transaction.
C16_WaitEnds ==
    /\ \A t \in Tasks : Waiting(t) ~> (tasks[t].pc = "done" /\ tasks[t].res.id >= 1)
    /\ [][WaitRetractsNothing]_vars

C16_Witness ==
    \E t \in Tasks :
        /\ Done(t, "relay-withdrawal")
        /\ tasks[t].res.error = "Failed to confirm withdrawal transaction"
        /\ tasks[t].res.id \in 1 .. Len(relayed)
        /\ receipts[tasks[t].res.id] = "none"

\* The next segment of the handler in slot t, whatever its route.
HandlerStep(t) ==
    \/ LedgerStep(t)
    \/ StatusStep(t)
    \/ SuspensionStep(t)
    \/ CheckSuspensionFindOne(t)
    \/ RelayStep(t)

\* A request of each family being taken by slot t.
Starts(t) ==
    /\ ENABLED CreateTransaction(t, TransactionBody("0xaa", 100))
    /\ ENABLED CreateWithdrawal(t, WithdrawalBody("0xaa", 100))
    /\ ENABLED CancelTransaction(t, IdBody(1))
    /\ ENABLED MarkPaid(t, IdBody(1))
    /\ ENABLED VerifyWithdrawal(t, VerifyBody(AdminHeaders, 1, "verified"))
    /\ ENABLED Suspend(t, SuspendBody(AdminHeaders, "0xaa", "fraud"))
    /\ ENABLED Unsuspend(t, SuspendBody(AdminHeaders, "0xaa", ""))
    /\ ENABLED Relay(t, RelayBody("0xdd", "stake", "0xaa", "56"))
    /\ ENABLED RelayWithdrawal(t, RelayBody("0xCc", "executeMetaWithdrawal", "0xaa", "56"))

\* C17: while a relay call is in its confirmation wait, any other slot can
\* take a request, and a handler in flight in another slot can take its
\* next step, up to its response: no step waits for the confirmation wait
\* of another call to end.
C17_WaitBlocksNobody ==
    \A t \in Tasks :
        Waiting(t) =>
            \A s \in Tasks \ {t} :
                /\ tasks[s].pc = "idle" => Starts(s)
                /\ InFlight(s) => ENABLED HandlerStep(s)
                /\ tasks[s].pc = "done" => ENABLED Ack(s)

C17_Witness ==
    \E t \in Tasks, s \in Tasks :
        /\ Waiting(t) /\ receipts[tasks[t].ref] = "none"
        /\ Done(s, "create-withdrawal") /\ tasks[s].res.code = 200
        /\ tasks[s].res.id \in DOMAIN withdrawals

\* C18 as claimed: once create-withdrawal has stored its record, or
\* verify-withdrawal its status, the call answers success (the new id, or
\* success: true) whether or not the notification is delivered.
C18_NotifierNeverFailsTheCall ==
    [][\A t \in Tasks :
          (tasks[t].op \in {"create-withdrawal", "verify-withdrawal"}
              /\ tasks[t].pc = "notify" /\ Steps(t))
          => /\ tasks'[t].pc = "done"
             /\ tasks'[t].res.code = 200
             /\ tasks[t].op = "create-withdrawal" => tasks'[t].res.id = tasks[t].ref]_vars

ClientErrors == {400, 403, 404}

Effect == ~StoreUnchanged \/ relayed' # relayed \/ notified' # notified

\* A handler that answers a client error answers it in a step without
\* effect and has had none before: a step with an effect either ends the
\* call with another answer or leaves it at the notification or at the
\* confirmation wait, and from there no client error is answered.
NoEffectThenClientError ==
    \A t \in Tasks :
        Steps(t) =>
            /\ (tasks'[t].pc = "done" /\ tasks'[t].res.code \in ClientErrors) => ~Effect
            /\ Effect => tasks'[t].pc \in {"notify", "wait", "done"}
            /\ tasks[t].pc \in {"notify", "wait"} =>
                  (tasks'[t].pc = "done" /\ tasks'[t].res.code \notin ClientErrors)

\* C19: a request answered 400, 403 or 404 leaves the stored transactions,
\* withdrawals and suspensions as they were, and submits and notifies
\* nothing.
C19_ClientErrorNoEffect ==
    [][NoEffectThenClientError /\ (Effect => \E t \in Tasks : Steps(t))]_vars

C19_Witness ==
    \E t \in Tasks :
        /\ Done(t, "cancel-transaction")
        /\ tasks[t].res.code = 400
        /\ tasks[t].req.transactionId \in DOMAIN transactions
        /\ transactions[tasks[t].req.transactionId].status = "awaiting verification"
        /\ "0xaa" \in DOMAIN suspensions

\* One document per address, stored under its lowercased form.
OneRecordPerAddress == \A a \in DOMAIN suspensions : ToLowerCase(a) = a

\* A suspend whose address has a record answers 400 and stores nothing.
DuplicateSuspend ==
    \A t \in Tasks :
        (At(t, "suspend", "save") /\ Steps(t)
            /\ ToLowerCase(tasks[t].req.address) \in DOMAIN suspensions)
        => /\ tasks'[t].pc = "done"
           /\ tasks'[t].res.code = 400
           /\ tasks'[t].res.error = "Account already suspended"
           /\ suspensions' = suspensions

\* A stored record keeps its reason, admin and suspendedAt until it is deleted.
RecordKept ==
    \A a \in DOMAIN suspensions \cap DOMAIN suspensions' : suspensions'[a] = suspensions[a]

\* C20: however suspend calls interleave, there is at most one suspension
\* record per lowercased address; a suspend for an address that has a record
\* is answered 400 "Account already suspended" and the record keeps its
\* reason, admin and suspendedAt.
C20_OneSuspensionPerAddress ==
    /\ []OneRecordPerAddress
    /\ [][DuplicateSuspend /\ RecordKept]_vars

C20_Witness ==
    \E t \in Tasks, s \in Tasks :
        /\ Done(s, "suspend") /\ tasks[s].res.code = 200
        /\ tasks[s].req.address = "0xAa" /\ tasks[s].req.reason = "fraud"
        /\ Done(t, "suspend") /\ tasks[t].res.code = 400
        /\ tasks[t].req.address = "0xaa" /\ tasks[t].req.reason = ""
        /\ DOMAIN suspensions = {"0xaa"}
        /\ suspensions["0xaa"].reason = "fraud"
        /\ suspensions["0xaa"].suspendedAt < now


----------------------------------------------------------------------------
(* Unsuspend *)

\* An unsuspend for an address without a record is answered 404 and changes
\* nothing; for an address with a record it removes that record and leaves
\* every other record as it was.
UnsuspendOutcome ==
    \A t \in Tasks :
        At(t, "unsuspend", "delete") /\ Steps(t)
        => LET a == ToLowerCase(tasks[t].req.address) IN
           /\ tasks'[t].pc = "done"
           /\ UNCHANGED <<transactions, withdrawals, nextId>>
           /\ a \notin DOMAIN suspensions
              => /\ tasks'[t].res.code = 404
                 /\ tasks'[t].res.error = "Account not suspended"
                 /\ suspensions' = suspensions
           /\ a \in DOMAIN suspensions
              => /\ tasks'[t].res.code = 200
                 /\ DOMAIN suspensions' = DOMAIN suspensions \ {a}
                 /\ \A b \in DOMAIN suspensions' : suspensions'[b] = suspensions[b]

\* A successful suspend adds the record of its address and nothing else, so
\* taking that record away again gives the registry as it was before.
SuspendUndone ==
    \A t \in Tasks :
        At(t, "suspend", "save") /\ Steps(t) /\ tasks'[t].res.code = 200
        => LET a == ToLowerCase(tasks[t].req.address) IN
           /\ a \notin DOMAIN suspensions
           /\ [b \in DOMAIN suspensions' \ {a} |-> suspensions'[b]] = suspensions

\* C21: unsuspend on an address with no record is answered 404 "Account not
\* suspended" and changes nothing; on a suspended address it removes exactly
\* that record; suspend followed by unsuspend gives the registry its prior
\* content, and an unsuspend after that one is answered 404.
C21_UnsuspendRemovesExactlyOne == [][UnsuspendOutcome /\ SuspendUndone]_vars

C21_Witness ==
    \E t \in Tasks, s \in Tasks :
        /\ Done(s, "unsuspend") /\ tasks[s].res.code = 200 /\ tasks[s].req.address = "0xaa"
        /\ Done(t, "unsuspend") /\ tasks[t].res.code = 404 /\ tasks[t].req.address = "0xAa"
        /\ DOMAIN suspensions = {"0xbb"}


----------------------------------------------------------------------------
(* Case variants of an address *)

CaseVariants(a, b) == ToLowerCase(a) = ToLowerCase(b)

\* Some suspension record is stored under a case variant of address b.
SuspendedAs(b) == \E r \in DOMAIN suspensions : CaseVariants(r, b)

CheckReportsVariants ==
    \A t \in Tasks :
        At(t, "check-suspension", "findOne") /\ Steps(t)
        => /\ tasks'[t].res.code = 200
           /\ tasks'[t].res.error = "isSuspended" <=> SuspendedAs(tasks[t].req.address)

GateRejectsVariants ==
    \A t \in Tasks :
        (tasks[t].op \in GatedOps /\ tasks[t].pc = "findSuspension" /\ Steps(t))
        => (RejectedAsSuspended(tasks'[t]) <=> SuspendedAs(GatedUser(t)))

UnsuspendRemovesVariants ==
    \A t \in Tasks :
        (At(t, "unsuspend", "delete") /\ Steps(t) /\ SuspendedAs(tasks[t].req.address))
        => /\ tasks'[t].res.code = 200
           /\ \A r \in DOMAIN suspensions' : ~CaseVariants(r, tasks[t].req.address)

PendingSeesVariants(coll, op) ==
    \A t \in Tasks :
        At(t, op, "findPending") /\ Steps(t)
        => ((tasks'[t].pc = "done" /\ tasks'[t].res.code = 400)
               <=> \E id \in DOMAIN coll : /\ coll[id].status = "pending"
                                            /\ CaseVariants(coll[id].userId, tasks[t].req.userId))

\* C22: addresses are compared without regard to case: after a suspend
\* under one case variant of an address, check-suspension under any other
\* variant reports suspended, create and relay for it are rejected as
\* suspended, and unsuspend under it removes the record; the pending lookup
\* of create takes case variants of a userId for one user.
C22_CaseInsensitive ==
    [][/\ CheckReportsVariants
       /\ GateRejectsVariants
       /\ UnsuspendRemovesVariants
       /\ PendingSeesVariants(transactions, "create-transaction")
       /\ PendingSeesVariants(withdrawals, "create-withdrawal")]_vars

\* "0xaa" is suspended only by a suspend of "0xAa".
C22_Witness ==
    /\ Done("t1", "check-suspension")
    /\ tasks["t1"].req.address = "0xaa"
    /\ tasks["t1"].res.error = "isSuspended"
    /\ \E id \in DOMAIN transactions : transactions[id].userId = "0xbb"


----------------------------------------------------------------------------
(* The list routes *)

ListOps == {"transactions", "withdrawals"}

Listed(op) == IF op = "transactions" THEN transactions ELSE withdrawals

IdsOf(list) == {list[i].id : i \in 1 .. Len(list)}

\* The caller's headers carry the configured admin's address and a
\* signature of "Admin access" by the configured admin's key.
AuthenticatesAsAdmin(h) ==
    /\ h.signature.hex
    /\ ToLowerCase(h.signature.signer) = ToLowerCase(ADMIN_ADDRESS)
    /\ ToLowerCase(h.adminAddress) = ToLowerCase(ADMIN_ADDRESS)

OwnRecords(coll, userAddress) == {id \in DOMAIN coll : coll[id].userId = ToLowerCase(userAddress)}

\* A finished list call: the admin has every record; any other caller that
\* is answered with records has its own records, each once and as stored,
\* and no other; an error carries no record.
ListScope ==
    \A t \in Tasks :
        (tasks[t].pc = "done" /\ tasks[t].op \in ListOps) =>
            LET r == tasks[t].res
                h == tasks[t].req
                coll == Listed(tasks[t].op) IN
            /\ AuthenticatesAsAdmin(h) => r.code = 200
            /\ r.code # 200 => r.list = <<>>
            /\ r.code = 200
               => /\ Cardinality(IdsOf(r.list)) = Len(r.list)
                  /\ \A i \in 1 .. Len(r.list) :
                        r.list[i].id \in DOMAIN coll /\ r.list[i].doc = coll[r.list[i].id]
                  /\ IdsOf(r.list) = IF AuthenticatesAsAdmin(h) THEN DOMAIN coll
                                     ELSE OwnRecords(coll, h.userAddress)

\* The collections that differ from coll only in records of other users:
\* some of these records are not there, the others have another status.
OthersVaried(coll, userAddress) ==
    {[id \in keep |-> IF id \in OwnRecords(coll, userAddress) THEN coll[id]
                      ELSE [coll[id] EXCEPT !.status = st]] :
        keep \in {k \in SUBSET DOMAIN coll : OwnRecords(coll, userAddress) \subseteq k},
        st \in StatusEnum}

\* What a non-admin caller past the suspension lookup can be answered is the
\* same in every state that differs only in other users' records.
ListNonInterference ==
    \A t \in Tasks :
        (tasks[t].op \in ListOps /\ tasks[t].pc = "find") =>
            \A other \in OthersVaried(Listed(tasks[t].op), tasks[t].req.userAddress) :
                UserListing(other, tasks[t].req.userAddress)
                    = UserListing(Listed(tasks[t].op), tasks[t].req.userAddress)

\* C23: on GET /api/transactions and GET /api/withdrawals a caller that
\* authenticates as the configured admin receives all records; any other
\* caller receives exactly the records whose userId is its lowercased
\* userAddress header, never another user's, and its response is the same
\* in two states that differ only in other users' records.
C23_ListScope == ListScope /\ ListNonInterference

C23_Witness ==
    /\ Done("t1", "transactions")
    /\ tasks["t1"].req.userAddress = "0xAa" /\ tasks["t1"].req.adminAddress = ""
    /\ tasks["t1"].res.code = 200
    /\ Len(tasks["t1"].res.list) = 1
    /\ tasks["t1"].res.list[1].doc.userId = "0xaa"
    /\ \E id \in DOMAIN transactions : transactions[id].userId = "0xbb"


----------------------------------------------------------------------------
(* Relay failures without a hash *)

StatusByPrecedence(message) ==
    IF Includes(message, "authentication") \/ Includes(message, "API key and secret are required")
    THEN 401
    ELSE IF Includes(message, "Insufficient funds") THEN 403
    ELSE IF Includes(message, "status code 400") THEN 400
    ELSE 500

\* C24: a relay call that fails before or during submission is answered by
\* the content of the error's message: 401 when it contains
\* "authentication" or "API key and secret are required", else 403 when it
\* contains "Insufficient funds", else 400 when it contains "status code
\* 400", else 500; none of these answers carries a hash and nothing was
\* submitted.
C24_RelayFailureClassified ==
    \A t \in Tasks :
        (tasks[t].op \in RelayOps /\ tasks[t].pc = "done" /\ tasks[t].caught # "-")
        => /\ tasks[t].res.code = StatusByPrecedence(tasks[t].caught)
           /\ tasks[t].res.id = 0
           /\ tasks[t].ref = 0

C24_Witness ==
    \E t \in Tasks :
        /\ Done(t, "relay")
        /\ tasks[t].caught = "authentication failed: Insufficient funds"
        /\ tasks[t].res.code = 401


----------------------------------------------------------------------------
(* Server errors *)

\* C25: every unexpected failure, in a relay call too, is answered with a
\* generic server error: the body of a 500 answer carries no message of the
\* underlying exception.
C25_ServerErrorIsGeneric ==
    \A t \in Tasks :
        (tasks[t].pc = "done" /\ tasks[t].res.code = 500) => tasks[t].res.info = "-"


----------------------------------------------------------------------------
(* Ids *)

IdOps == TransactionLookups \cup WithdrawalLookups

InvalidIdErrors == {"Invalid transaction ID", "Invalid withdrawal ID"}

\* A request with a malformed id is answered at once, before any lookup,
\* with 400 (by the admin middleware with 400 or 403 when the route is
\* admin-only and the credentials are not the admin's) and never with 404.
MalformedIdRejected ==
    \A t \in Tasks :
        (tasks[t].pc = "idle" /\ tasks'[t].op \in IdOps
            /\ ~isValidObjectId(tasks'[t].req.transactionId))
        => /\ tasks'[t].pc = "done"
           /\ tasks'[t].res.code \in {400, 403}
           /\ (tasks'[t].op \in VerifyOps => Authorized(tasks'[t].req))
                 => /\ tasks'[t].res.code = 400
                    /\ tasks'[t].res.error \in InvalidIdErrors
           /\ tasks'[t].res.code = 403 => tasks'[t].res.error \in MiddlewareErrors
           /\ StoreUnchanged

\* 404 is the answer of a lookup, of a well-formed id that resolves to no
\* record of the collection.
NotFoundFromLookup ==
    \A t \in Tasks :
        (tasks'[t].op \in IdOps /\ Steps(t) /\ tasks'[t].pc = "done" /\ tasks'[t].res.code = 404)
        => /\ tasks[t].pc = "findById"
           /\ isValidObjectId(tasks[t].req.transactionId)
           /\ tasks[t].req.transactionId
                 \notin DOMAIN (IF tasks[t].op \in TransactionLookups THEN transactions ELSE withdrawals)

\* C26: cancel, mark-paid, check-status and verify, for both record types,
\* answer a malformed id with 400 before any store lookup and never with
\* 404; 404 is returned only for a well-formed id that resolves to no
\* record.
C26_MalformedIdIsValidation ==
    [][/\ MalformedIdRejected
       /\ NotFoundFromLookup
       /\ LookupNotFound(transactions, TransactionLookups)
       /\ LookupNotFound(withdrawals, WithdrawalLookups)]_vars

C26_Witness ==
    \E t \in Tasks :
        /\ Done(t, "verify-withdrawal")
        /\ tasks[t].req.transactionId = 0
        /\ Authorized(tasks[t].req)
        /\ tasks[t].res.code = 400 /\ tasks[t].res.error = "Invalid withdrawal ID"
        /\ withdrawals # Empty


----------------------------------------------------------------------------
(* The order of the checks of create *)

CreateOps == {"create-transaction", "create-withdrawal"}

InvalidCreateData(op, body) ==
    IF op = "create-transaction" THEN InvalidTransactionData(body) ELSE InvalidWithdrawalData(body)

\* Invalid fields are answered 400 in the step that takes the request,
\* whatever is stored; valid ones go to the suspension lookup.
FieldsFirst ==
    \A t \in Tasks :
        (tasks[t].pc = "idle" /\ tasks'[t].op \in CreateOps) =>
            IF InvalidCreateData(tasks'[t].op, tasks'[t].req)
            THEN /\ tasks'[t].pc = "done" /\ tasks'[t].res.code = 400
                 /\ tasks'[t].res.error \in {"Invalid transaction data", "Invalid withdrawal data"}
                 /\ StoreUnchanged
            ELSE tasks'[t].pc = "findSuspension"

\* The suspension lookup comes before the pending lookup: a suspended user
\* is answered 403 with the reason, with or without a pending record.
SuspensionSecond ==
    \A t \in Tasks :
        (tasks[t].op \in CreateOps /\ tasks[t].pc = "findSuspension" /\ Steps(t)) =>
            IF GatedUser(t) \in DOMAIN suspensions
            THEN /\ tasks'[t].pc = "done"
                 /\ RejectedAsSuspended(tasks'[t])
                 /\ tasks'[t].res.info = suspensions[GatedUser(t)].reason
                 /\ StoreUnchanged
            ELSE tasks'[t].pc = "findPending"

\* The save stores one new pending record under an id no record has or had,
\* and changes no other record.
OneFreshRecord(coll, collNext, other, op) ==
    \A t \in Tasks :
        At(t, op, "save") /\ Steps(t)
        => \E id \in DOMAIN collNext :
              /\ id \notin DOMAIN transactions \cup DOMAIN withdrawals
              /\ id > nextId
              /\ DOMAIN collNext = DOMAIN coll \cup {id}
              /\ \A x \in DOMAIN coll : collNext[x] = coll[x]
              /\ collNext[id].status = "pending"
              /\ collNext[id].userId = GatedUser(t)
              /\ tasks'[t].res.id = id \/ tasks'[t].ref = id
              /\ UNCHANGED <<other, suspensions>>

\* Every successful create has stored the record it names, as pending.
CreatedIsStored ==
    \A t \in Tasks :
        /\ (Done(t, "create-transaction") /\ tasks[t].res.code = 200)
              => /\ tasks[t].res.id \in DOMAIN transactions
                 /\ transactions[tasks[t].res.id].status = "pending"
        /\ (Done(t, "create-withdrawal") /\ tasks[t].res.code = 200)
              => /\ tasks[t].res.id \in DOMAIN withdrawals
                 /\ withdrawals[tasks[t].res.id].status = "pending"

\* C27: create checks the fields, then the suspension, then the pending
\* record: invalid fields are answered 400 whatever the suspension and
\* pending state, a suspended user with a pending record is answered 403
\* with the reason and not the pending conflict, and a successful create
\* stores exactly one new record, pending, under a fresh id.
C27_CreateCheckOrder ==
    /\ []CreatedIsStored
    /\ [][/\ FieldsFirst
          /\ SuspensionSecond
          /\ CreateConflict(transactions, "create-transaction")
          /\ CreateConflict(withdrawals, "create-withdrawal")
          /\ OneFreshRecord(transactions, transactions', withdrawals, "create-transaction")
          /\ OneFreshRecord(withdrawals, withdrawals', transactions, "create-withdrawal")]_vars

C27_Witness ==
    /\ Done("t1", "create-transaction")
    /\ RejectedAsSuspended(tasks["t1"])
    /\ tasks["t1"].res.info = "fraud"
    /\ PendingOf(transactions, ToLowerCase(tasks["t1"].req.userId)) # {}


----------------------------------------------------------------------------
(* mark-paid *)

\* The lookup of mark-paid lets only a pending Transaction through; for any
\* other status it answers 400 naming that status and nothing changes.
MarkPaidLookup ==
    \A t \in Tasks :
        (At(t, "mark-paid", "findById") /\ Steps(t)
            /\ tasks[t].req.transactionId \in DOMAIN transactions)
        => LET status == transactions[tasks[t].req.transactionId].status IN
           /\ StoreUnchanged
           /\ IF status = "pending"
              THEN tasks'[t].pc = "save"
              ELSE /\ tasks'[t].pc = "done"
                   /\ tasks'[t].res.code = 400
                   /\ tasks'[t].res.error = "Transaction is in status"
                   /\ tasks'[t].res.info = status

\* The save of mark-paid moves the record from pending to awaiting
\* verification, answers 200 and touches no other record and no Withdrawal.
MarkPaidMoves ==
    \A t \in Tasks :
        At(t, "mark-paid", "save") /\ Steps(t)
        => LET id == tasks[t].req.transactionId IN
           /\ id \in DOMAIN transactions /\ transactions[id].status = "pending"
           /\ DOMAIN transactions' = DOMAIN transactions
           /\ transactions'[id].status = "awaiting verification"
           /\ \A x \in DOMAIN transactions \ {id} : transactions'[x] = transactions[x]
           /\ tasks'[t].res.code = 200 /\ tasks'[t].res.id = id
           /\ UNCHANGED <<withdrawals, suspensions, nextId>>

\* No record goes back to pending, and no step of mark-paid changes a
\* Withdrawal.
NeverPendingAgain ==
    /\ \A id \in DOMAIN transactions \cap DOMAIN transactions' :
          transactions'[id].status = "pending" => transactions[id].status = "pending"
    /\ By("mark-paid") => withdrawals' = withdrawals

\* C28: mark-paid succeeds only on a Transaction whose status is pending
\* and sets it to awaiting verification; for any other status it answers
\* 400 naming the current status and changes nothing, so with handlers one
\* at a time a second mark-paid of the same id always fails; no mark-paid
\* acts on a Withdrawal: its id resolves to no Transaction.
C28_MarkPaidOnlyFromPending ==
    [][/\ MarkPaidLookup
       /\ MarkPaidMoves
       /\ NeverPendingAgain
       /\ LookupNotFound(transactions, {"mark-paid"})]_vars

C28_Witness ==
    /\ Done("t1", "mark-paid")
    /\ tasks["t1"].res.code = 400
    /\ tasks["t1"].res.info = "awaiting verification"
    /\ transactions[tasks["t1"].req.transactionId].status = "awaiting verification"


----------------------------------------------------------------------------
(* Timestamps *)

UpdatedAfterCreated(coll) == \A id \in DOMAIN coll : coll[id].updatedAt >= coll[id].createdAt

TimestampsKept(coll, collNext) ==
    \A id \in DOMAIN coll \cap DOMAIN collNext :
        /\ collNext[id].createdAt = coll[id].createdAt
        /\ collNext[id].updatedAt >= coll[id].updatedAt

\* C29: the clock never going back, updatedAt of every record is at least
\* its createdAt in every reachable state, no step lowers updatedAt and no
\* step changes createdAt.
C29_TimestampsMonotone ==
    /\ [](UpdatedAfterCreated(transactions) /\ UpdatedAfterCreated(withdrawals))
    /\ [][/\ TimestampsKept(transactions, transactions')
          /\ TimestampsKept(withdrawals, withdrawals')]_vars


----------------------------------------------------------------------------
(* Stored addresses *)

IsLowerCase(s) == ToLowerCase(s) = s

\* C30: in every reachable state every stored address is in lower case:
\* the userId of every Transaction and Withdrawal, the address of every
\* Transaction, the address and the admin of every suspension record.
C30_StoredAddressesLowerCase ==
    /\ \A id \in DOMAIN transactions :
          IsLowerCase(transactions[id].userId) /\ IsLowerCase(transactions[id].address)
    /\ \A id \in DOMAIN withdrawals : IsLowerCase(withdrawals[id].userId)
    /\ \A a \in DOMAIN suspensions : IsLowerCase(a) /\ IsLowerCase(suspensions[a].admin)

\* Stored from "0xBb" and "0xCc" in a create, from "0xAa" and "0xAD" in a suspend.
C30_Witness ==
    /\ \E id \in DOMAIN transactions :
          transactions[id].userId = "0xbb" /\ transactions[id].address = "0xcc"
    /\ \E id \in DOMAIN withdrawals : withdrawals[id].userId = "0xbb"
    /\ Done("t1", "suspend") /\ tasks["t1"].res.code = 200
    /\ tasks["t1"].req.address = "0xAa" /\ tasks["t1"].req.adminAddress = "0xAD"
    /\ suspensions["0xaa"].admin = "0xad"


----------------------------------------------------------------------------
(* The stamp on a suspension record *)

StampedByAdmin ==
    \A a \in DOMAIN suspensions :
        /\ suspensions[a].admin = ToLowerCase(ADMIN_ADDRESS)
        /\ suspensions[a].reason # ""

\* A successful suspend was authenticated as the admin, and its record has
\* that address, lowercased, and the reason sent, or "No reason provided"
\* when none was sent.
SuspendStamps ==
    \A t \in Tasks :
        (At(t, "suspend", "save") /\ Steps(t) /\ tasks'[t].res.code = 200)
        => LET a == ToLowerCase(tasks[t].req.address) IN
           /\ Authorized(tasks[t].req)
           /\ suspensions'[a].admin = ToLowerCase(tasks[t].req.adminAddress)
           /\ suspensions'[a].reason = IF tasks[t].req.reason = "" THEN "No reason provided"
                                        ELSE tasks[t].req.reason

\* C31: in every reachable state the admin of every suspension record is
\* the configured admin address in lower case, the address that passed the
\* admin authentication of the suspend call, and its reason is the reason
\* supplied or "No reason provided" when none was supplied.
C31_RecordStampedByAdmin == []StampedByAdmin /\ [][SuspendStamps]_vars

C31_Witness ==
    /\ Done("t1", "suspend") /\ tasks["t1"].res.code = 200
    /\ tasks["t1"].req.adminAddress = "0xAD" /\ tasks["t1"].req.reason = ""
    /\ suspensions["0xaa"].admin = "0xad"
    /\ suspensions["0xaa"].reason = "No reason provided"


----------------------------------------------------------------------------
(* List calls that do not authenticate as the admin *)

\* C32: on the list routes a caller whose adminAddress and signature do not
\* authenticate as the configured admin is an ordinary caller: with no
\* userAddress it is answered 400, with a suspended userAddress 403 with
\* the reason, with a valid userAddress that is not suspended 200 with its
\* own records; it is never answered with a server error nor with the
\* records of all users.
C32_NotAdminIsOrdinaryCaller ==
    \A t \in Tasks :
        (tasks[t].pc = "done" /\ tasks[t].op \in ListOps /\ ~AuthenticatesAsAdmin(tasks[t].req)) =>
            LET r == tasks[t].res
                h == tasks[t].req
                coll == Listed(tasks[t].op) IN
            /\ r.code # 500
            /\ h.userAddress = "" => r.code = 400 /\ r.error = "Missing user address"
            /\ (isAddress(h.userAddress) /\ ToLowerCase(h.userAddress) \in DOMAIN suspensions)
                  => /\ RejectedAsSuspended(tasks[t])
                     /\ r.info = suspensions[ToLowerCase(h.userAddress)].reason
            /\ (isAddress(h.userAddress) /\ ToLowerCase(h.userAddress) \notin DOMAIN suspensions)
                  => r.code = 200 /\ IdsOf(r.list) = OwnRecords(coll, h.userAddress)
            /\ IdsOf(r.list) \subseteq OwnRecords(coll, h.userAddress)



----------------------------------------------------------------------------
(* The status a transaction is verified from *)

\* A transaction that takes the status verified or failed in a step had the
\* status awaiting verification before the step.
EnteredFromAwaiting ==
    \A id \in DOMAIN transactions' :
        (/\ transactions'[id].status \in {"verified", "failed"}
         /\ id \in DOMAIN transactions => transactions[id].status # transactions'[id].status)
        => id \in DOMAIN transactions /\ transactions[id].status = "awaiting verification"

\* The status awaiting verification is given by a mark-paid save only, so a
\* verify-transaction that succeeds on an id comes after a mark-paid that
\* succeeded on it.
AwaitingByMarkPaid ==
    \A id \in DOMAIN transactions' :
        (/\ transactions'[id].status = "awaiting verification"
         /\ id \in DOMAIN transactions => transactions[id].status # "awaiting verification")
        => \E t \in Tasks :
              /\ At(t, "mark-paid", "save") /\ Steps(t)
              /\ tasks[t].req.transactionId = id /\ tasks'[t].res.code = 200

\* The lookup of verify-transaction answers 400 naming the status for a
\* record that is pending, and stores nothing.
VerifyOfPendingFails ==
    \A t \in Tasks :
        (/\ At(t, "verify-transaction", "findById") /\ Steps(t)
         /\ tasks[t].req.transactionId \in DOMAIN transactions
         /\ transactions[tasks[t].req.transactionId].status = "pending")
        => /\ tasks'[t].pc = "done" /\ tasks'[t].res.code = 400
           /\ tasks'[t].res.info = "pending"
           /\ StoreUnchanged

\* C33: in every behaviour, handlers interleaved, a transaction that is
\* verified or failed was awaiting verification immediately before: the
\* status awaiting verification comes from a successful mark-paid only, a
\* status verified or failed is taken from awaiting verification only, and
\* verify-transaction on a pending transaction is answered 400.
C33_VerifiedFromAwaiting ==
    [][EnteredFromAwaiting /\ AwaitingByMarkPaid /\ VerifyOfPendingFails]_vars



----------------------------------------------------------------------------
(* Withdrawals never await verification *)

NoWithdrawalAwaits ==
    \A id \in DOMAIN withdrawals : withdrawals[id].status # "awaiting verification"

\* A verify-withdrawal that is past its pre-state check read a pending record.
VerifiesPendingWithdrawal ==
    \A t \in Tasks :
        (/\ tasks[t].op = "verify-withdrawal"
         /\ \/ tasks[t].pc \in {"save", "notify"}
            \/ tasks[t].pc = "done" /\ tasks[t].res.code = 200)
        => tasks[t].doc.status = "pending"

\* C34: in every reachable state, handlers interleaved, no withdrawal has
\* the status awaiting verification, and every verify-withdrawal that passed
\* its pre-state check, so every one that succeeds, read a pending record.
C34_NoWithdrawalAwaits == NoWithdrawalAwaits /\ VerifiesPendingWithdrawal

C34_Witness ==
    \E t \in Tasks :
        /\ Done(t, "verify-withdrawal") /\ tasks[t].res.code = 200
        /\ tasks[t].doc.status = "pending"
        /\ withdrawals[tasks[t].req.transactionId].status \in {"verified", "failed"}



----------------------------------------------------------------------------
(* What blocks a creation *)

\* The pending lookup of a create lets the request through to the save when
\* the user has no pending record of the type, whatever other records the
\* user has, and the save stores a new pending record of the user.
CreationGoesThrough(coll, collNext, op) ==
    \A t \in Tasks :
        /\ (At(t, op, "findPending") /\ Steps(t)
               /\ PendingOf(coll, ToLowerCase(tasks[t].req.userId)) = {})
           => tasks'[t].pc = "save" /\ StoreUnchanged
        /\ (At(t, op, "save") /\ Steps(t))
           => \E id \in DOMAIN collNext :
                 /\ Created(coll, collNext, id)
                 /\ collNext[id].userId = ToLowerCase(tasks[t].req.userId)
                 /\ \A other \in DOMAIN coll : collNext[other] = coll[other]

\* C35: only a pending record of the same type blocks a creation: the
\* pending lookup answers 400 exactly when the user has a pending record of
\* the type, and otherwise, whatever records in other statuses or of the
\* other type the user has, the request goes on and stores a new pending
\* record.
C35_OnlyPendingBlocks ==
    [][/\ CreateConflict(transactions, "create-transaction")
       /\ CreateConflict(withdrawals, "create-withdrawal")
       /\ CreationGoesThrough(transactions, transactions', "create-transaction")
       /\ CreationGoesThrough(withdrawals, withdrawals', "create-withdrawal")]_vars

\* A transaction created for a user who has a transaction that is not
\* pending.
C35_Witness ==
    /\ Done("t1", "create-transaction") /\ tasks["t1"].res.code = 200
    /\ \E id \in DOMAIN transactions :
          /\ id # tasks["t1"].res.id
          /\ transactions[id].userId = ToLowerCase(tasks["t1"].req.userId)
          /\ transactions[id].status \in {"awaiting verification", "verified", "failed"}



----------------------------------------------------------------------------
(* The signature of a relay request *)

\* Well-formed signatures: produced by the key of one user or of another,
\* or by no key that can be recovered.
WellFormedSignatures == {SigOf("0xaa"), SigOf("0xbb"), SigUnrecoverable}

\* The tx object handed to sendTransaction.
TxOf(e) ==
    [to |-> e.to, data |-> e.functionName, gasLimit |-> e.gasLimit, gasPrice |-> e.gasPrice,
     chainId |-> e.chainId, speed |-> e.speed, value |-> e.value]

\* A step of a relay handler whose request has a well-formed signature is
\* the step the handler takes for the same request with any other
\* well-formed signature: the same rejection, with the suspension looked up
\* for the userAddress stated, or the same tx submitted.
SignatureBlind ==
    \A t \in Tasks :
        (tasks[t].op \in RelayOps /\ InFlight(t) /\ Steps(t) /\ isSignature(tasks[t].req.signature)) =>
            \A g \in WellFormedSignatures :
                LET other == [tasks[t].req EXCEPT !.signature = g]
                    r == RelayChecks(other, IF tasks[t].op = "relay" THEN StakingFunctions
                                            ELSE WithdrawalFunctions) IN
                /\ MissingRelayFields(other) = MissingRelayFields(tasks[t].req)
                /\ tasks[t].pc = "findSuspension" =>
                      IF ToLowerCase(other.userAddress) \in DOMAIN suspensions
                      THEN /\ tasks'[t].pc = "done" /\ RejectedAsSuspended(tasks'[t])
                           /\ tasks'[t].res.info = suspensions[ToLowerCase(other.userAddress)].reason
                      ELSE IF r # NoRes
                      THEN tasks'[t].pc = "done" /\ tasks'[t].res = r
                      ELSE tasks'[t].pc = "send"
                /\ (tasks[t].pc = "send" /\ relayed' # relayed) =>
                      /\ Len(relayed') = Len(relayed) + 1
                      /\ TxOf(relayed'[Len(relayed')]) = TxOf(Envelope(tasks[t].op, other))

\* C36: the decision of /relay and /relay-withdrawal and the tx they submit
\* depend on the signature only through its format: a request with a
\* well-formed signature is treated as the same request with any other
\* well-formed signature, whoever produced it, and the suspension gate is
\* applied to the userAddress stated in the request.
C36_SignatureOnlyByFormat == [][SignatureBlind]_vars

\* A relay answered with success for a userAddress whose key did not produce
\* the signature.
C36_Witness ==
    /\ Done("t1", "relay") /\ tasks["t1"].res.code = 200
    /\ tasks["t1"].req.userAddress = "0xaa"
    /\ tasks["t1"].req.signature = SigOf("0xbb")
    /\ TxOf(relayed[tasks["t1"].res.id]) = TxOf(Envelope("relay", [tasks["t1"].req EXCEPT !.signature = SigOf("0xaa")]))

====
